---------------------------- MODULE Spec2Model ----------------------------
(***************************************************************************)
(* Model of the hydroponic expert system's simulation core                 *)
(* (src/src/services/simulationService.ts, class SimulationService).       *)
(*                                                                         *)
(* Numbers.  The program computes in IEEE doubles.  Readings and range     *)
(* bounds are modelled as integers in the unit of the reading (pH and EC   *)
(* in tenths, every other reading in whole units).  The fractional         *)
(* quantities of calculateYield (the linear score, the impact, the yield   *)
(* multiplier, the deviations) are fixed-point numbers with Scale steps    *)
(* per unit: 1.0 is Scale, 0.01 is Scale \div 100.  Math.pow is computed   *)
(* in that fixed point (integer powers by repeated rounded multiplication, *)
(* the fractional part of the exponent through a tenth root).  Weights and *)
(* growth-time factors are kept in tenths.  Where the program compares or  *)
(* rounds a double at a value that decimal inputs hit exactly (the         *)
(* thresholds of the pH/EC advisory, the grams and kilograms of the        *)
(* result), the double is modelled exactly: as its decimal value plus its  *)
(* rounding error, each operation rounding to the nearest double.          *)
(***************************************************************************)
EXTENDS Integers, Sequences, FiniteSets

VARIABLES
    cropType,     \* params.cropType of the call
    params,       \* the 9 numeric readings of the call (Parameters)
    pc,           \* "start" before simulateGrowth runs, then "returned" or "thrown"
    result,       \* the SimulationResult returned (NoResult before, and on a throw)
    yieldLocals,  \* calculateYield's locals at its return: yieldMultiplier, deviations
    error,        \* the exception simulateGrowth ended with ("none" if it returned)
    calls,        \* the calls made on one SimulationService: position and consts of each
    heap,         \* the objects the service works on (its weights, the registry's
                  \* profiles, the arrays its calls allocated) and the parameter
                  \* objects of a GrowthModel: contents by identity
    model,        \* the fields of one GrowthModel: parameters (an object), result
    simulated,    \* the parameters the model's last simulate() passed on (none before)
    client,       \* a caller of the model: the object getParameters gave it, its
                  \* last call and what that call returned
    view,         \* GrowthSimulator's state: parameters, result, selectedPlant
    store,        \* the store: its state and the action last dispatched
    calculator    \* CropCalculator's state: cropId, temp, result

serviceVars == <<cropType, params, pc, result, yieldLocals, error, calls>>
appVars == <<model, simulated, client, view, store, calculator>>
vars == <<cropType, params, pc, result, yieldLocals, error, calls, heap,
          model, simulated, client, view, store, calculator>>

-----------------------------------------------------------------------------
(* Fixed point *)

\* Steps per unit of the fixed-point fractions, and the limb (its square root)
\* that products are split at to stay within 32-bit integers.
Scale == 100000000
Limb == 10000

\* a * b of two fractions, rounded to the nearest step.
FMul(a, b) ==
    LET a1  == a \div Limb
        a0  == a % Limb
        b1  == b \div Limb
        b0  == b % Limb
        mid == a1 * b0 + a0 * b1
        low == (mid % Limb) * Limb + a0 * b0
    IN  a1 * b1 + mid \div Limb + (low + Scale \div 2) \div Scale

\* x ^ n for a natural n.
RECURSIVE FPowInt(_, _)
FPowInt(x, n) == IF n = 0 THEN Scale ELSE FMul(FPowInt(x, n - 1), x)

\* r ^ 10 by squaring.
FPow10(r) ==
    LET r2 == FMul(r, r)
        r4 == FMul(r2, r2)
        r5 == FMul(r4, r)
    IN  FMul(r5, r5)

\* The largest r in lo..hi-1 with r^10 <= x, given lo^10 <= x (bisection).
RECURSIVE Root10Search(_, _, _)
Root10Search(x, lo, hi) ==
    IF hi - lo <= 1 THEN lo
    ELSE LET mid == (lo + hi) \div 2
         IN  IF FPow10(mid) <= x
             THEN Root10Search(x, mid, hi)
             ELSE Root10Search(x, lo, mid)

\* x ^ (1/10) for a fraction x in [0, 1].
Root10(x) == Root10Search(x, 0, Scale + 1)

\* x ^ e for a fraction x in [0, 1] and an exponent e given in tenths:
\* x ^ floor(e) * (x ^ (1/10)) ^ (tenths of e).
PowTenths(x, eTenths) ==
    IF eTenths % 10 = 0
    THEN FPowInt(x, eTenths \div 10)
    ELSE FMul(FPowInt(x, eTenths \div 10), FPowInt(Root10(x), eTenths % 10))

\* Math.max, Math.min, Math.abs
Max(a, b) == IF a >= b THEN a ELSE b
Min(a, b) == IF a <= b THEN a ELSE b
Abs(a) == IF a < 0 THEN -a ELSE a

\* Math.round(num / den) for den > 0: the nearest integer, a tie going up.
RoundDiv(num, den) == (2 * num + den) \div (2 * den)

-----------------------------------------------------------------------------
(* Doubles of decimal values *)

\* `const x = v; body` is written Only({body : x \in {v}}): v is evaluated once
\* and body is evaluated with x bound to its value.
Only(S) == CHOOSE r \in S : TRUE

\* A double x is kept as [n, d, r]: x = n/d + r * U, where n/d is the decimal
\* value the program's arithmetic would give in the reals, d is a product of
\* 2s and at most three 5s, and r counts the rounding error in units of
\* U = 2^-64 / 125.  Doubles have 53 significant bits: in the binade
\* [2^e, 2^(e+1)) they are the multiples of 2^(e-52), which is 125 * 2^(e+12)
\* units of U.
Double(n, d, r) == [n |-> n, d |-> d, r |-> r]

\* d = 2^TwoExponent(d) * OddPart(d)
RECURSIVE TwoExponent(_)
TwoExponent(d) == IF d % 2 = 0 THEN 1 + TwoExponent(d \div 2) ELSE 0

RECURSIVE OddPart(_)
OddPart(d) == IF d % 2 = 0 THEN OddPart(d \div 2) ELSE d

\* 2^k, and 2^k modulo 125, tabulated once.
RECURSIVE Pow2Of(_)
Pow2Of(k) == IF k = 0 THEN 1 ELSE 2 * Pow2Of(k - 1)
Pow2 == [k \in 0..30 |-> Pow2Of(k)]

RECURSIVE Pow2Mod125Of(_)
Pow2Mod125Of(k) == IF k = 0 THEN 1 ELSE (2 * Pow2Mod125Of(k - 1)) % 125
Pow2Mod125 == [k \in 0..80 |-> Pow2Mod125Of(k)]

\* 2^e <= n/d and 2^e = n/d, for n, d > 0.
AtLeastPow2(n, d, e) == IF e >= 0 THEN n >= Pow2[e] * d ELSE n * Pow2[-e] >= d
IsPow2(n, d, e) == IF e >= 0 THEN n = Pow2[e] * d ELSE n * Pow2[-e] = d

\* The exponent e of the binade [2^e, 2^(e+1)) that n/d + r * U lies in, for
\* 0 < n/d < 2^9.
RECURSIVE BinadeFrom(_, _, _)
BinadeFrom(n, d, e) == IF AtLeastPow2(n, d, e) THEN e ELSE BinadeFrom(n, d, e - 1)

Binade(n, d, r) ==
    LET e == BinadeFrom(n, d, 8)
    IN  IF IsPow2(n, d, e) /\ r < 0 THEN e - 1 ELSE e

\* One unit in the last place of the binade e, in units of U.
Ulp(e) == 125 * Pow2[e + 12]

\* (n/d in units of 2^-k) modulo 125, for k at least the exponent of 2 in d.
Residue125(n, d, k) ==
    ((n % 125) * (125 \div OddPart(d)) * Pow2Mod125[k - TwoExponent(d)]) % 125

\* The r of the double nearest to n/d + r * U for n > 0, a tie going to the
\* even significand: rho is the distance above the double below, rho2 the
\* distance above the even double below.
RoundedR(n, d, r) ==
    LET e    == Binade(n, d, r)
        ulp  == Ulp(e)
        rho  == (Pow2[e + 12] * Residue125(n, d, 52 - e) + r) % ulp
        rho2 == (Pow2[e + 13] * Residue125(n, d, 51 - e) + r) % (2 * ulp)
    IN  IF rho = 0 THEN r
        ELSE IF 2 * rho < ulp THEN r - rho
        ELSE IF 2 * rho > ulp THEN r + (ulp - rho)
        ELSE IF rho2 >= ulp THEN r + (ulp - rho) ELSE r - rho

\* The double nearest to n/d + r * U (a value of magnitude 0 is the exact
\* difference of two doubles and is a double itself).
ToDouble(n, d, r) ==
    Only({ IF x.n = 0 THEN x
           ELSE IF x.n > 0 THEN Double(x.n, x.d, RoundedR(x.n, x.d, x.r))
           ELSE Double(x.n, x.d, -RoundedR(-x.n, x.d, -x.r))
           : x \in {Double(n, d, r)} })

\* The double of the decimal literal (or of the quotient of two integers) n/d.
Literal(n, d) == ToDouble(n, d, 0)

CommonDen(a, b) == IF a % b = 0 THEN a ELSE IF b % a = 0 THEN b ELSE a * b

\* x + y, x - y, x / 2, k * x for an integer k, Math.abs(x), x > y.
DAdd(x, y) ==
    Only({ ToDouble(a.n * (d \div a.d) + b.n * (d \div b.d), d, a.r + b.r)
           : a \in {x}, b \in {y}, d \in {CommonDen(x.d, y.d)} })

DSub(x, y) ==
    Only({ ToDouble(a.n * (d \div a.d) - b.n * (d \div b.d), d, a.r - b.r)
           : a \in {x}, b \in {y}, d \in {CommonDen(x.d, y.d)} })

DHalf(x) == Only({ Double(a.n, 2 * a.d, a.r \div 2) : a \in {x} })

DTimes(k, x) == Only({ ToDouble(k * a.n, a.d, k * a.r) : a \in {x} })

DAbs(x) ==
    Only({ IF a.n < 0 \/ (a.n = 0 /\ a.r < 0) THEN Double(-a.n, a.d, -a.r) ELSE a
           : a \in {x} })

DGreater(x, y) ==
    \E a \in {x}, b \in {y} :
        \/ a.n * b.d > b.n * a.d
        \/ a.n * b.d = b.n * a.d /\ a.r > b.r

\* Math.round(x) for x >= 0: floor(x + 0.5).
DRound(x) ==
    Only({ IF (2 * a.n + a.d) % (2 * a.d) = 0 /\ a.r < 0
           THEN (2 * a.n + a.d) \div (2 * a.d) - 1
           ELSE (2 * a.n + a.d) \div (2 * a.d)
           : a \in {x} })

-----------------------------------------------------------------------------
(* Data: optional fields, the parameter keys, the weights, the registry *)


\* An optional field: <<>> when it is not declared (undefined), <<v>> when it is.
Undefined == <<>>
Some(v) == <<v>>

\* a ?? b
Coalesce(a, b) == IF a = Undefined THEN b ELSE a[1]

\* parameterKeys(): the fixed order in which every component walks the readings.
parameterKeys ==
    << "ph", "ec", "airTemperature", "solutionTemperature",
       "lightIntensity", "co2Level", "humidity", "waterLevel", "oxygenLevel" >>

KeySet == {parameterKeys[i] : i \in 1..Len(parameterKeys)}

\* PARAM_WEIGHTS, in tenths.
PARAM_WEIGHTS ==
    [ ph |-> 12, ec |-> 15, airTemperature |-> 10, solutionTemperature |-> 10,
      lightIntensity |-> 13, co2Level |-> 9, humidity |-> 6, waterLevel |-> 7,
      oxygenLevel |-> 14 ]

\* The names table of getParameterName (the Russian display names in English).
names ==
    [ ph |-> "pH", ec |-> "EC", airTemperature |-> "Air temperature",
      solutionTemperature |-> "Solution temperature",
      lightIntensity |-> "Light intensity", co2Level |-> "CO2 level",
      humidity |-> "Humidity", waterLevel |-> "Water level",
      oxygenLevel |-> "Oxygen level" ]

\* getParameterName(key)
getParameterName(key) == names[key]

\* A ParameterRange {min, max, criticalMin?, criticalMax?}.
Range(lo, hi, cmin, cmax) ==
    [min |-> lo, max |-> hi, criticalMin |-> cmin, criticalMax |-> cmax]

\* CROP_PARAMETERS: the crop profile registry.  src/ holds its type
\* (CropParametersMap, CropConfig) and not its values; the two profiles here
\* follow the data model of the specification (min <= max, criticalMin <= min,
\* criticalMax >= max, growthTime.optimal <= growthTime.max, maxYield >= 0).
\* "lettuce" declares every critical bound (pH as in the specification's
\* examples: optimal 5.5-6.5, critical 4.0-8.0; its water level has no slack
\* above).  "basil" leaves critical bounds undeclared or equal to the optimum.
\* "microgreens" has no maxYield.
CROP_PARAMETERS ==
    [ lettuce |->
        [ name |-> "Lettuce",
          optimal |->
            [ ph                  |-> Range(55, 65, Some(40), Some(80)),
              ec                  |-> Range(12, 20, Some(0), Some(35)),
              airTemperature      |-> Range(18, 24, Some(5), Some(35)),
              solutionTemperature |-> Range(18, 22, Some(10), Some(30)),
              lightIntensity      |-> Range(10000, 20000, Some(4000), Some(40000)),
              co2Level            |-> Range(600, 1200, Some(300), Some(2000)),
              humidity            |-> Range(50, 70, Some(30), Some(90)),
              waterLevel          |-> Range(70, 100, Some(40), Some(100)),
              oxygenLevel         |-> Range(5, 8, Some(3), Some(12)) ],
          growthTime |-> [optimal |-> 30, max |-> 60],
          maxYield |-> 250 ],
      basil |->
        [ name |-> "Basil",
          optimal |->
            [ ph                  |-> Range(55, 65, Undefined, Undefined),
              ec                  |-> Range(10, 16, Undefined, Some(28)),
              airTemperature      |-> Range(20, 28, Some(10), Undefined),
              solutionTemperature |-> Range(18, 24, Some(18), Some(30)),
              lightIntensity      |-> Range(12000, 25000, Some(6000), Some(25000)),
              co2Level            |-> Range(800, 1500, Some(400), Some(2500)),
              humidity            |-> Range(40, 60, Some(20), Some(80)),
              waterLevel          |-> Range(60, 100, Some(30), Undefined),
              oxygenLevel         |-> Range(6, 9, Some(6), Some(9)) ],
          growthTime |-> [optimal |-> 25, max |-> 40],
          maxYield |-> 120 ],
      microgreens |->
        [ name |-> "Microgreens",
          optimal |->
            [ ph                  |-> Range(55, 65, Some(45), Some(75)),
              ec                  |-> Range(8, 14, Some(2), Some(25)),
              airTemperature      |-> Range(18, 22, Some(10), Some(30)),
              solutionTemperature |-> Range(18, 22, Some(12), Some(28)),
              lightIntensity      |-> Range(8000, 15000, Some(3000), Some(30000)),
              co2Level            |-> Range(400, 1000, Some(300), Some(1500)),
              humidity            |-> Range(50, 60, Some(30), Some(80)),
              waterLevel          |-> Range(60, 100, Some(30), Some(100)),
              oxygenLevel         |-> Range(6, 9, Some(4), Some(12)) ],
          growthTime |-> [optimal |-> 10, max |-> 14] ] ]

\* The crop identifiers that have a profile.
KnownCrops == DOMAIN CROP_PARAMETERS

\* The crops whose calls are enumerated over combinations of readings.
SweptCrops == {"lettuce", "basil"}

-----------------------------------------------------------------------------
(* checkViability *)

\* limits.criticalMin ?? limits.min and limits.criticalMax ?? limits.max
EffectiveCriticalMin(limits) == Coalesce(limits.criticalMin, limits.min)
EffectiveCriticalMax(limits) == Coalesce(limits.criticalMax, limits.max)

\* Mutant of OutsideCritical: the upper critical bound is not tested.
OutsideCriticalLowerOnly(value, cmin, cmax) == value < cmin

\* Mutant of OutsideCritical: the bounds themselves count as outside.
OutsideCriticalStrictInside(value, cmin, cmax) == value <= cmin \/ value >= cmax

\* The test of checkViability: value < cmin || value > cmax.
OutsideCritical(value, cmin, cmax) == value < cmin \/ value > cmax

\* The issue text checkViability pushes, as the values its template interpolates.
ViabilityIssue(key, value, cmin, cmax) ==
    [ kind |-> "riskOfDeath", name |-> getParameterName(key), value |-> value,
      lo |-> cmin, hi |-> cmax ]

\* Mutant of checkViabilityLoop: the walk stops at the first violation.
RECURSIVE checkViabilityShortCircuit(_, _, _, _)
checkViabilityShortCircuit(i, p, config, acc) ==
    IF i > Len(parameterKeys) \/ ~acc.isViable THEN acc
    ELSE LET key    == parameterKeys[i]
             value  == p[key]
             limits == config.optimal[key]
             cmin   == EffectiveCriticalMin(limits)
             cmax   == EffectiveCriticalMax(limits)
         IN  checkViabilityShortCircuit(i + 1, p, config,
                 IF OutsideCritical(value, cmin, cmax)
                 THEN [ isViable |-> FALSE,
                        issues |-> Append(acc.issues,
                                          ViabilityIssue(key, value, cmin, cmax)) ]
                 ELSE acc)

\* One pass of checkViability's forEach body over the keys from index i on;
\* acc holds the local isViable and the shared issues array.
RECURSIVE checkViabilityLoop(_, _, _, _)
checkViabilityLoop(i, p, config, acc) ==
    IF i > Len(parameterKeys) THEN acc
    ELSE LET key    == parameterKeys[i]
             value  == p[key]
             limits == config.optimal[key]
             cmin   == EffectiveCriticalMin(limits)
             cmax   == EffectiveCriticalMax(limits)
         IN  checkViabilityLoop(i + 1, p, config,
                 IF OutsideCritical(value, cmin, cmax)
                 THEN [ isViable |-> FALSE,
                        issues |-> Append(acc.issues,
                                          ViabilityIssue(key, value, cmin, cmax)) ]
                 ELSE acc)

\* checkViability(params, config, issues): the boolean it returns and the issues
\* array as it leaves it.
checkViability(p, config, issues) ==
    checkViabilityLoop(1, p, config, [isViable |-> TRUE, issues |-> issues])

-----------------------------------------------------------------------------
(* calculateYield *)

\* clamp(v, a, b)
clamp(v, a, b) == Max(a, Min(b, v))

\* (num / den) as a fraction, for den > 0, by long division in two limbs, rounded
\* to the nearest step.
Fraction(num, den) ==
    LET q1 == (num * Limb) \div den
        r1 == (num * Limb) % den
        q2 == (r1 * Limb) \div den
        r2 == (r1 * Limb) % den
    IN  q1 * Limb + q2 + (IF 2 * r2 >= den THEN 1 ELSE 0)

\* Mutant of computeLinearNormalized: the interpolation is measured from the
\* optimal bound instead of the critical bound.
computeLinearNormalizedInverted(value, min, max, cmin, cmax) ==
    IF value < min
    THEN IF cmin >= min THEN 0
         ELSE clamp(Fraction(min - value, min - cmin), 0, Scale)
    ELSE IF value > max
    THEN IF cmax <= max THEN 0
         ELSE clamp(Fraction(value - max, cmax - max), 0, Scale)
    ELSE Scale

\* Mutant of computeLinearNormalized: the score is not clamped.
computeLinearNormalizedUnclamped(value, min, max, cmin, cmax) ==
    IF value < min
    THEN IF cmin >= min THEN 0
         ELSE Fraction(value - cmin, min - cmin)
    ELSE IF value > max
    THEN IF cmax <= max THEN 0
         ELSE Fraction(cmax - value, cmax - max)
    ELSE Scale

\* Mutant of computeLinearNormalized: a degenerate range scores 1.
computeLinearNormalizedDegenerateOne(value, min, max, cmin, cmax) ==
    IF value < min
    THEN IF cmin >= min THEN Scale
         ELSE clamp(Fraction(value - cmin, min - cmin), 0, Scale)
    ELSE IF value > max
    THEN IF cmax <= max THEN Scale
         ELSE clamp(Fraction(cmax - value, cmax - max), 0, Scale)
    ELSE Scale

\* computeLinearNormalized(value, min, max, cmin, cmax)
computeLinearNormalized(value, min, max, cmin, cmax) ==
    IF value < min
    THEN IF cmin >= min THEN 0
         ELSE clamp(Fraction(value - cmin, min - cmin), 0, Scale)
    ELSE IF value > max
    THEN IF cmax <= max THEN 0
         ELSE clamp(Fraction(cmax - value, cmax - max), 0, Scale)
    ELSE Scale

\* The readings tried for one range: beyond, at and inside each critical bound,
\* one unit outside, at and inside each optimal bound.
Candidates(limits) ==
    LET cmin == EffectiveCriticalMin(limits)
        cmax == EffectiveCriticalMax(limits)
    IN  << cmin - 5, cmin, (cmin + limits.min) \div 2, limits.min - 1, limits.min,
           (limits.min + limits.max) \div 2,
           limits.max, limits.max + 1, (limits.max + cmax + 1) \div 2, cmax, cmax + 5 >>

\* The readings swept for pH and EC, the two readings kept in tenths: every
\* tenth from 0.5 below the lower of the critical minimum and zero to 0.5 above
\* the critical maximum.
SweepKeys == {"ph", "ec"}
SweepValues(limits) ==
    (Min(EffectiveCriticalMin(limits), 0) - 5) .. (EffectiveCriticalMax(limits) + 5)

\* Every reading of one key that a simulated call carries.
ReadingValues(key, limits) ==
    {Candidates(limits)[i] : i \in 1..11}
        \cup (IF key \in SweepKeys THEN SweepValues(limits) ELSE {})

\* The pairs <<exponent in tenths, base>> that calculateYield raises for those
\* readings, and their powers, computed once.
PowArguments ==
    UNION { UNION { { << 10 + PARAM_WEIGHTS[key],
                         Max(Scale \div 100,
                             computeLinearNormalized(
                                 value, limits.min, limits.max,
                                 EffectiveCriticalMin(limits),
                                 EffectiveCriticalMax(limits))) >>
                      : value \in ReadingValues(key, limits) }
                    : limits \in {CROP_PARAMETERS[crop].optimal[key]} }
            : crop \in KnownCrops, key \in KeySet }

PowTable == [a \in PowArguments |-> PowTenths(a[2], a[1])]

\* Math.pow(x, e) for a fraction x in [0, 1] and an exponent e given in tenths.
MathPow(x, eTenths) ==
    IF << eTenths, x >> \in DOMAIN PowTable
    THEN PowTable[<< eTenths, x >>]
    ELSE PowTenths(x, eTenths)

\* Mutant of InOptimal: only the upper bound of the optimal range is tested.
InOptimalUpperOnly(value, limits) == value <= limits.max

\* The guard of calculateYield's early return: the value is in the optimal range.
InOptimal(value, limits) == value >= limits.min /\ value <= limits.max

\* Mutant of ImpactOf: the exponent is the weight, not 1 + weight.
ImpactOfWeightOnly(linear, weight) == MathPow(Max(Scale \div 100, linear), weight)

\* Mutant of ImpactOf: the floor of the score is 0.1 instead of 0.01.
ImpactOfFloorTenth(linear, weight) == MathPow(Max(Scale \div 10, linear), 10 + weight)

\* Math.pow(Math.max(0.01, linear), 1 + weight)
ImpactOf(linear, weight) == MathPow(Max(Scale \div 100, linear), 10 + weight)

\* The impact calculateYield computes for a reading outside its optimal range.
Impact(key, value, limits) ==
    ImpactOf(computeLinearNormalized(value, limits.min, limits.max,
                                     EffectiveCriticalMin(limits),
                                     EffectiveCriticalMax(limits)),
             PARAM_WEIGHTS[key])

\* The issue text calculateYield pushes, as the values its template interpolates;
\* percent is Math.round(impact * 100).
YieldIssue(key, value, limits, impact) ==
    [ kind |-> "yieldImpact", name |-> getParameterName(key), value |-> value,
      lo |-> limits.min, hi |-> limits.max,
      percent |-> RoundDiv(impact, Scale \div 100) ]

\* One pass of calculateYield's forEach body over the keys from index i on; acc
\* holds yieldMultiplier, deviations and the shared issues array.
\* Mutant of calculateYieldLoop: an issue is put in front of the array instead of
\* being pushed at its end.
RECURSIVE calculateYieldLoopUnshift(_, _, _, _)
calculateYieldLoopUnshift(i, p, config, acc) ==
    IF i > Len(parameterKeys) THEN acc
    ELSE LET key    == parameterKeys[i]
             value  == p[key]
             limits == config.optimal[key]
         IN  Only({ calculateYieldLoopUnshift(i + 1, p, config, next) : next \in {
                 IF InOptimal(value, limits)
                 THEN [acc EXCEPT !.deviations[key] = Some(0)]
                 ELSE Only({
                      [ yieldMultiplier |-> FMul(acc.yieldMultiplier, impact),
                        deviations |->
                            [acc.deviations EXCEPT ![key] = Some(Abs(Scale - impact))],
                        issues |->
                            IF impact < Scale
                            THEN << YieldIssue(key, value, limits, impact) >> \o acc.issues
                            ELSE acc.issues ]
                      : impact \in {Impact(key, value, limits)} }) } })

RECURSIVE calculateYieldLoop(_, _, _, _)
calculateYieldLoop(i, p, config, acc) ==
    IF i > Len(parameterKeys) THEN acc
    ELSE LET key    == parameterKeys[i]
             value  == p[key]
             limits == config.optimal[key]
         IN  Only({ calculateYieldLoop(i + 1, p, config, next) : next \in {
                 IF InOptimal(value, limits)
                 THEN [acc EXCEPT !.deviations[key] = Some(0)]
                 ELSE Only({
                      [ yieldMultiplier |-> FMul(acc.yieldMultiplier, impact),
                        deviations |->
                            [acc.deviations EXCEPT ![key] = Some(Abs(Scale - impact))],
                        issues |->
                            IF impact < Scale
                            THEN Append(acc.issues, YieldIssue(key, value, limits, impact))
                            ELSE acc.issues ]
                      : impact \in {Impact(key, value, limits)} }) } })

\* Mutant of InteractionApplies: either deviation alone triggers the penalty.
InteractionAppliesEither(ecDev, phDev) ==
    ecDev > (2 * Scale) \div 10 \/ phDev > (15 * Scale) \div 100

\* The condition of the pH/EC interaction penalty: ecDev > 0.2 && phDev > 0.15.
InteractionApplies(ecDev, phDev) ==
    ecDev > (2 * Scale) \div 10 /\ phDev > (15 * Scale) \div 100

\* interactionPenalty = 0.9
interactionPenalty == (9 * Scale) \div 10

\* calculateYield(params, config, issues): the percentage it returns, the issues
\* array as it leaves it, and its locals yieldMultiplier and deviations at return.
calculateYield(p, config, issues) ==
    Only({ Only({
        [ pct |-> Max(0, RoundDiv(yieldMultiplier, Scale \div 100)),
          issues |-> looped.issues,
          yieldMultiplier |-> yieldMultiplier,
          deviations |-> looped.deviations ]
        : yieldMultiplier \in
            { IF InteractionApplies(Coalesce(looped.deviations["ec"], 0),
                                    Coalesce(looped.deviations["ph"], 0))
              THEN FMul(looped.yieldMultiplier, interactionPenalty)
              ELSE looped.yieldMultiplier } })
      : looped \in
          { calculateYieldLoop(1, p, config,
                [ yieldMultiplier |-> Scale,
                  deviations |-> [k \in KeySet |-> Undefined],
                  issues |-> issues ]) } })

-----------------------------------------------------------------------------
(* calculateGrowthTime *)

\* The three time factors, in tenths: 1.5, 1.3, 1.2 when the reading is below its
\* optimal minimum, 1 otherwise.
TimeFactor(below, factorTenths) == IF below THEN factorTenths ELSE 10

\* Mutant of calculateGrowthTime: the result is not capped by growthTime.max.
calculateGrowthTimeUncapped(p, config) ==
    LET optimal == config.growthTime.optimal
        multiplier ==
            TimeFactor(p.airTemperature < config.optimal.airTemperature.min, 15)
          * TimeFactor(p.lightIntensity < config.optimal.lightIntensity.min, 13)
          * TimeFactor(p.co2Level < config.optimal.co2Level.min, 12)
    IN  RoundDiv(optimal * multiplier, 1000)

\* Mutant of calculateGrowthTime: the penalties add up instead of multiplying.
calculateGrowthTimeAdditive(p, config) ==
    LET optimal == config.growthTime.optimal
        max     == config.growthTime.max
        multiplier ==
            10
          + (TimeFactor(p.airTemperature < config.optimal.airTemperature.min, 15) - 10)
          + (TimeFactor(p.lightIntensity < config.optimal.lightIntensity.min, 13) - 10)
          + (TimeFactor(p.co2Level < config.optimal.co2Level.min, 12) - 10)
    IN  Min(RoundDiv(optimal * multiplier, 10), max)

\* Mutant of calculateGrowthTime: air temperature outside its optimal range on
\* either side slows growth.
calculateGrowthTimeTwoSided(p, config) ==
    LET optimal == config.growthTime.optimal
        max     == config.growthTime.max
        multiplier ==
            TimeFactor(p.airTemperature < config.optimal.airTemperature.min
                          \/ p.airTemperature > config.optimal.airTemperature.max, 15)
          * TimeFactor(p.lightIntensity < config.optimal.lightIntensity.min, 13)
          * TimeFactor(p.co2Level < config.optimal.co2Level.min, 12)
    IN  Min(RoundDiv(optimal * multiplier, 1000), max)

\* calculateGrowthTime(params, config); multiplier is in thousandths.
calculateGrowthTime(p, config) ==
    LET optimal == config.growthTime.optimal
        max     == config.growthTime.max
        multiplier ==
            TimeFactor(p.airTemperature < config.optimal.airTemperature.min, 15)
          * TimeFactor(p.lightIntensity < config.optimal.lightIntensity.min, 13)
          * TimeFactor(p.co2Level < config.optimal.co2Level.min, 12)
    IN  Min(RoundDiv(optimal * multiplier, 1000), max)

-----------------------------------------------------------------------------
(* generateRecommendations *)

\* The directive texts, as the values their templates interpolate.
Recommendation(kind, key, value, limits) ==
    [ kind |-> kind, name |-> getParameterName(key), value |-> value,
      lo |-> limits.min, hi |-> limits.max ]

\* The combined pH/EC advisory (a fixed text).
CombinedAdvisory == [kind |-> "phEcAdvisory"]

\* Mutant of NeedsRaise: the optimal minimum itself asks for a raise.
NeedsRaiseAtMin(value, limits) == value <= limits.min

\* Mutant of NeedsLower: lowering is advised only beyond the critical maximum.
NeedsLowerBeyondCritical(value, limits) == value > EffectiveCriticalMax(limits)

\* The tests of generateRecommendations: value < limits.min, value > limits.max.
NeedsRaise(value, limits) == value < limits.min
NeedsLower(value, limits) == value > limits.max

\* Mutant of generateRecommendationsLoop: the keys are walked from the last to
\* the first.
RECURSIVE generateRecommendationsLoopReversed(_, _, _, _)
generateRecommendationsLoopReversed(i, p, config, recs) ==
    IF i > Len(parameterKeys) THEN recs
    ELSE LET key    == parameterKeys[Len(parameterKeys) + 1 - i]
             value  == p[key]
             limits == config.optimal[key]
         IN  generateRecommendationsLoopReversed(i + 1, p, config,
                 IF NeedsRaise(value, limits)
                 THEN Append(recs, Recommendation("raise", key, value, limits))
                 ELSE IF NeedsLower(value, limits)
                 THEN Append(recs, Recommendation("lower", key, value, limits))
                 ELSE recs)

\* One pass of generateRecommendations' forEach body over the keys from index i on.
RECURSIVE generateRecommendationsLoop(_, _, _, _)
generateRecommendationsLoop(i, p, config, recs) ==
    IF i > Len(parameterKeys) THEN recs
    ELSE LET key    == parameterKeys[i]
             value  == p[key]
             limits == config.optimal[key]
         IN  generateRecommendationsLoop(i + 1, p, config,
                 IF NeedsRaise(value, limits)
                 THEN Append(recs, Recommendation("raise", key, value, limits))
                 ELSE IF NeedsLower(value, limits)
                 THEN Append(recs, Recommendation("lower", key, value, limits))
                 ELSE recs)

\* The double of a pH or EC given in tenths.
Tenths(n) == Literal(n, 10)

\* Math.abs(value - (limits.min + limits.max) / 2) > threshold, in doubles, for a
\* pH or EC reading, its range and a threshold, all in tenths.
FarFromMiddle(value, limits, threshold) ==
    DGreater(DAbs(DSub(Tenths(value),
                       DHalf(DAdd(Tenths(limits.min), Tenths(limits.max))))),
             Tenths(threshold))

\* The comparisons of the advisory that the readings of the registry's crops
\* lead to, as <<key, value, range>>, and their outcomes, computed once.
AdvisoryThreshold == [ec |-> 8, ph |-> 4]

AdvisoryArguments ==
    UNION { { << key, value, CROP_PARAMETERS[crop].optimal[key] >>
              : value \in ReadingValues(key, CROP_PARAMETERS[crop].optimal[key]) }
            : crop \in KnownCrops, key \in SweepKeys }

FarFromMiddleTable ==
    [a \in AdvisoryArguments |-> FarFromMiddle(a[2], a[3], AdvisoryThreshold[a[1]])]

\* Math.abs(params[key] - middle) > threshold of the key
IsFarFromMiddle(key, value, limits) ==
    IF << key, value, limits >> \in DOMAIN FarFromMiddleTable
    THEN FarFromMiddleTable[<< key, value, limits >>]
    ELSE FarFromMiddle(value, limits, AdvisoryThreshold[key])

\* |ec - (ec.min + ec.max) / 2| > 0.8 && |ph - (ph.min + ph.max) / 2| > 0.4
AdvisoryApplies(p, config) ==
    /\ IsFarFromMiddle("ec", p.ec, config.optimal.ec)
    /\ IsFarFromMiddle("ph", p.ph, config.optimal.ph)

\* generateRecommendations(params, config, recs): the recs array as it leaves it.
generateRecommendations(p, config, recs) ==
    LET looped == generateRecommendationsLoop(1, p, config, recs)
    IN  IF AdvisoryApplies(p, config) THEN Append(looped, CombinedAdvisory) ELSE looped

-----------------------------------------------------------------------------
(* simulateGrowth *)

\* cropParams.maxYield || 0
MaxYieldOrZero(config) ==
    IF "maxYield" \in DOMAIN config /\ config.maxYield # 0 THEN config.maxYield ELSE 0

\* Mutant of ExpectedGrams: the percentage is not divided by 100.
ExpectedGramsOfPercent(maxYield, yieldPercentage) ==
    DRound(DTimes(maxYield, Literal(yieldPercentage, 1)))

\* Math.round(maxYield * (yieldPercentage / 100)), in doubles.
ExpectedGrams(maxYield, yieldPercentage) ==
    DRound(DTimes(maxYield, Literal(yieldPercentage, 100)))

\* Math.round((expectedGrams / 1000) * 100), in doubles: yieldPerSquareMeter in
\* hundredths of a kilogram (the program divides this integer by 100).
HundredthsOfKilogram(expectedGrams) ==
    DRound(DTimes(100, Literal(expectedGrams, 1000)))

\* The grams and the hundredths of a kilogram of every profile and percentage,
\* computed once.
ExpectedGramsTable ==
    [ a \in {MaxYieldOrZero(CROP_PARAMETERS[crop]) : crop \in KnownCrops} \X (0..100)
        |-> Only({ [expectedGrams |-> grams,
                    yieldPerSquareMeter |-> HundredthsOfKilogram(grams)]
                   : grams \in {ExpectedGrams(a[1], a[2])} }) ]

\* expectedGrams and yieldPerSquareMeter (in hundredths) of lines 84-88.
GramsAndKilograms(maxYield, yieldPercentage) ==
    IF << maxYield, yieldPercentage >> \in DOMAIN ExpectedGramsTable
    THEN ExpectedGramsTable[<< maxYield, yieldPercentage >>]
    ELSE Only({ [expectedGrams |-> grams,
                 yieldPerSquareMeter |-> HundredthsOfKilogram(grams)]
                : grams \in {ExpectedGrams(maxYield, yieldPercentage)} })

\* simulateGrowth for a crop the registry knows: the SimulationResult record
\* (yieldPerSquareMeter in hundredths of a kilogram) and calculateYield's locals.
simulateGrowth(crop, p) ==
    LET cropParams == CROP_PARAMETERS[crop]
        \* the returned object, given its consts
        Returns(viability, yield, growthTime, grams) ==
            [ result |->
                [ isViable |-> viability.isViable,
                  yieldPercentage |-> yield.pct,
                  expectedGrams |-> grams.expectedGrams,
                  yieldPerSquareMeter |-> grams.yieldPerSquareMeter,
                  growthTime |-> growthTime,
                  issues |-> yield.issues,
                  recommendations |-> generateRecommendations(p, cropParams, << >>) ],
              locals |->
                [ yieldMultiplier |-> yield.yieldMultiplier,
                  deviations |-> yield.deviations ] ]
    IN  Only({ Only({ Only({ Only({
            Returns(viability, yield, growthTime, grams)
            : grams \in {GramsAndKilograms(MaxYieldOrZero(cropParams), yield.pct)} })
            : growthTime \in {calculateGrowthTime(p, cropParams)} })
            : yield \in {calculateYield(p, cropParams, viability.issues)} })
            : viability \in {checkViability(p, cropParams, << >>)} })

-----------------------------------------------------------------------------
(* The calls that are made: inputs *)

\* How many of the 9 readings of a call differ from the middle of their optimal
\* range.
MaxOff == 2

\* A crop identifier the views offer that the registry type does not list
\* ("tomato" beside the registry's "tomatoes").
UnknownCrops == {"tomato"}

\* The middle of a range.
Middle(limits) == (limits.min + limits.max) \div 2

\* The readings of a call for a known crop: those of `off` take the candidate that
\* `pick` names, the others the middle of their optimal range.
Readings(crop, off, pick) ==
    [ k \in KeySet |->
        LET limits == CROP_PARAMETERS[crop].optimal[k]
        IN  IF k \in off THEN Candidates(limits)[pick[k]] ELSE Middle(limits) ]

\* The parameters a GrowthModel starts with (its constructor's defaults), pH and
\* EC in tenths.
DefaultParameters ==
    [ ph |-> 60, ec |-> 15, airTemperature |-> 20, solutionTemperature |-> 20,
      lightIntensity |-> 12000, co2Level |-> 800, humidity |-> 60,
      waterLevel |-> 100, oxygenLevel |-> 6 ]

NoResult == [none |-> TRUE]

\* How many calls are made on the one service.
MaxCalls == 2

CallIds == 1..MaxCalls

\* A call that has not been made: no parameters, none of simulateGrowth's
\* consts, and nothing read by its caller.
NoCall ==
    [ pc |-> "idle", cropType |-> Undefined, params |-> Undefined,
      issues |-> Undefined, recommendations |-> Undefined,
      isViable |-> Undefined, yieldPercentage |-> Undefined,
      growthTime |-> Undefined, expectedGrams |-> Undefined,
      yieldPerSquareMeter |-> Undefined, received |-> Undefined ]

NoCalls == [c \in CallIds |-> NoCall]

\* No array has been allocated.
NoArrays == << >>

\* No model, view, store or calculator has been constructed.
NotConstructed ==
    /\ model = Undefined
    /\ simulated = Undefined
    /\ client = Undefined
    /\ view = Undefined
    /\ store = Undefined
    /\ calculator = Undefined

\* A call is about to be made.
Fresh ==
    /\ NotConstructed
    /\ pc = "start"
    /\ result = NoResult
    /\ yieldLocals = NoResult
    /\ error = "none"
    /\ calls = NoCalls
    /\ heap = NoArrays

\* Calls for a swept crop with at most MaxOff readings off the middle, and calls
\* for an unknown crop.
Init ==
    /\ Fresh
    /\ \/ /\ cropType \in SweptCrops
          /\ \E off \in {s \in SUBSET KeySet : Cardinality(s) <= MaxOff} :
                \E pick \in [off -> 1..11] :
                    params = Readings(cropType, off, pick)
       \/ /\ cropType \in UnknownCrops
          /\ params = DefaultParameters

\* Calls in which only the three readings that growth time depends on vary.
GrowthKeys == {"airTemperature", "lightIntensity", "co2Level"}

InitGrowth ==
    /\ Fresh
    /\ cropType \in SweptCrops
    /\ \E pick \in [GrowthKeys -> 1..11] :
          params = Readings(cropType, GrowthKeys, pick)

-----------------------------------------------------------------------------
(* The call *)

\* simulateGrowth returns: the registry holds the crop.
Return ==
    /\ pc = "start"
    /\ cropType \in KnownCrops
    /\ \E r \in {simulateGrowth(cropType, params)} :
           /\ result' = r.result
           /\ yieldLocals' = r.locals
    /\ pc' = "returned"
    /\ UNCHANGED <<cropType, params, error, calls, heap>>
    /\ UNCHANGED appVars

\* The exception an unknown crop ends in: CROP_PARAMETERS[params.cropType] is
\* undefined and checkViability's first read of config.optimal throws.
UndefinedProfileError == "TypeError"

\* simulateGrowth throws: the registry does not hold the crop.
Throw ==
    /\ pc = "start"
    /\ cropType \notin KnownCrops
    /\ error' = UndefinedProfileError
    /\ pc' = "thrown"
    /\ UNCHANGED <<cropType, params, result, yieldLocals, calls, heap>>
    /\ UNCHANGED appVars

\* Calls in which one reading varies and the other eight are optimal.
InitSingle ==
    /\ Fresh
    /\ cropType \in KnownCrops
    /\ \E k \in KeySet : \E pick \in [{k} -> 1..11] :
          params = Readings(cropType, {k}, pick)

\* Calls in which pH and EC take every swept tenth and the other seven readings
\* are optimal.
InitPhEc ==
    /\ Fresh
    /\ cropType \in SweptCrops
    /\ \E ph \in SweepValues(CROP_PARAMETERS[cropType].optimal.ph) :
       \E ec \in SweepValues(CROP_PARAMETERS[cropType].optimal.ec) :
          params = [ Readings(cropType, {}, << >>) EXCEPT !.ph = ph, !.ec = ec ]

Next == Return \/ Throw

Spec == Init /\ [][Next]_vars

SpecGrowth == InitGrowth /\ [][Return]_vars

SpecSingle == InitSingle /\ [][Return]_vars

SpecPhEc == InitPhEc /\ [][Return]_vars

-----------------------------------------------------------------------------
(* Several calls on one service, each advancing statement by statement *)

\* The readings at the middle of every optimal range of a crop.
Optimal(crop) == Readings(crop, {}, << >>)

\* The calls that are made on the service: optimal readings; a negative pH; a
\* pH and an EC both far from the middle; a pH under a range with no critical
\* bound; and nine negative readings.
CallInputs ==
    { [cropType |-> "lettuce", params |-> Optimal("lettuce")],
      [cropType |-> "lettuce", params |-> [Optimal("lettuce") EXCEPT !.ph = -5]],
      [cropType |-> "lettuce",
       params |-> [Optimal("lettuce") EXCEPT !.ph = 56, !.ec = 5]],
      [cropType |-> "basil", params |-> [Optimal("basil") EXCEPT !.ph = 54]],
      [cropType |-> "basil", params |-> [k \in KeySet |-> -5]] }

\* Mutant of NewArray: the arrays are fields of the service, one per statement.
NewArrayOfService(c, site) == << "array", 0, site >>

\* Mutant of NewArray: one array is kept for each crop.
NewArrayOfCrop(c, site) == << "array", 0, calls[c].cropType >>

\* The identity of the array that the literal [] at `site` creates in call c: a
\* new array each time the statement runs.
NewArray(c, site) == << "array", c, site >>

\* The identities of the objects a call is given besides its parameters: the
\* service's PARAM_WEIGHTS and the registry's profile of a crop.
WeightsObject == << "service", 0, "PARAM_WEIGHTS" >>
ProfileObject(crop) == << "registry", 0, crop >>

\* The service and the registry as constructed: no array yet.
ServiceObjects ==
    [ ref \in {WeightsObject} \cup {ProfileObject(crop) : crop \in KnownCrops} |->
        IF ref = WeightsObject THEN PARAM_WEIGHTS ELSE CROP_PARAMETERS[ref[3]] ]

\* cropParams of call c: the profile object that line 67 looked up.
CropParamsOf(c) == heap[ProfileObject(calls[c].cropType)]

\* The single-call variables stay as they start while the service is watched.
SingleCallUnchanged ==
    /\ UNCHANGED <<cropType, params, pc, result, yieldLocals, error>>
    /\ UNCHANGED appVars

\* The calls that a single caller makes: for each swept crop, every swept pH
\* (negative ones included) with the other readings optimal, and the calls above.
SweptInputs ==
    CallInputs \cup
    UNION { { [cropType |-> crop, params |-> [Optimal(crop) EXCEPT !.ph = ph]]
              : ph \in SweepValues(CROP_PARAMETERS[crop].optimal.ph) }
            : crop \in SweptCrops }

\* simulateGrowth(params) is entered with one of `inputs`, lines 65-67: calls are
\* numbered in the order they are made.
Invoke(c, inputs) ==
    /\ calls[c].pc = "idle"
    /\ IF c = 1 THEN TRUE ELSE calls[c - 1].pc # "idle"
    /\ \E input \in inputs :
          calls' = [calls EXCEPT ![c] =
                      [NoCall EXCEPT !.pc = "allocate",
                                     !.cropType = input.cropType,
                                     !.params = input.params]]
    /\ UNCHANGED heap
    /\ SingleCallUnchanged

\* const issues = []; const recommendations = []; (lines 70-71)
Allocate(c) ==
    /\ calls[c].pc = "allocate"
    /\ \E i \in {NewArray(c, "issues")}, r \in {NewArray(c, "recommendations")} :
          /\ heap' = [ref \in DOMAIN heap \cup {i, r} |->
                        IF ref \in DOMAIN heap THEN heap[ref] ELSE << >>]
          /\ calls' = [calls EXCEPT ![c].issues = i, ![c].recommendations = r,
                                    ![c].pc = "checkViability"]
    /\ SingleCallUnchanged

\* Mutant of CallCheckViability: a call with a negative reading is rejected and
\* goes no further.
CallCheckViabilityRejectsNegative(c) ==
    /\ calls[c].pc = "checkViability"
    /\ \A k \in KeySet : calls[c].params[k] >= 0
    /\ \E v \in {checkViability(calls[c].params, CropParamsOf(c),
                                 heap[calls[c].issues])} :
          /\ heap' = [heap EXCEPT ![calls[c].issues] = v.issues]
          /\ calls' = [calls EXCEPT ![c].isViable = v.isViable,
                                    ![c].pc = "calculateYield"]
    /\ SingleCallUnchanged

\* const isViable = this.checkViability(params, cropParams, issues); (line 74)
CallCheckViability(c) ==
    /\ calls[c].pc = "checkViability"
    /\ \E v \in {checkViability(calls[c].params, CropParamsOf(c),
                                 heap[calls[c].issues])} :
          /\ heap' = [heap EXCEPT ![calls[c].issues] = v.issues]
          /\ calls' = [calls EXCEPT ![c].isViable = v.isViable,
                                    ![c].pc = "calculateYield"]
    /\ SingleCallUnchanged

\* const yieldPercentage = this.calculateYield(params, cropParams, issues); (line 77)
CallCalculateYield(c) ==
    /\ calls[c].pc = "calculateYield"
    /\ \E y \in {calculateYield(calls[c].params, CropParamsOf(c),
                                 heap[calls[c].issues])} :
          /\ heap' = [heap EXCEPT ![calls[c].issues] = y.issues]
          /\ calls' = [calls EXCEPT ![c].yieldPercentage = y.pct,
                                    ![c].pc = "calculateGrowthTime"]
    /\ SingleCallUnchanged

\* Mutant of CallCalculateGrowthTime: the estimate is stored in the profile as
\* its new optimal growth time.
CallCalculateGrowthTimeStoresInProfile(c) ==
    /\ calls[c].pc = "calculateGrowthTime"
    /\ \E days \in {calculateGrowthTime(calls[c].params, CropParamsOf(c))} :
          /\ calls' = [calls EXCEPT ![c].growthTime = days,
                                    ![c].pc = "expectedGrams"]
          /\ heap' = [heap EXCEPT
                        ![ProfileObject(calls[c].cropType)].growthTime.optimal = days]
    /\ SingleCallUnchanged

\* const growthTime = this.calculateGrowthTime(params, cropParams); (line 80)
CallCalculateGrowthTime(c) ==
    /\ calls[c].pc = "calculateGrowthTime"
    /\ calls' = [calls EXCEPT
                   ![c].growthTime =
                       calculateGrowthTime(calls[c].params,
                                           CropParamsOf(c)),
                   ![c].pc = "expectedGrams"]
    /\ UNCHANGED heap
    /\ SingleCallUnchanged

\* const expectedGrams = ...; const yieldPerSquareMeter = ...; (lines 84-88)
CallExpectedGrams(c) ==
    /\ calls[c].pc = "expectedGrams"
    /\ \E grams \in {GramsAndKilograms(
                          MaxYieldOrZero(CropParamsOf(c)),
                          calls[c].yieldPercentage)} :
          calls' = [calls EXCEPT
                      ![c].expectedGrams = grams.expectedGrams,
                      ![c].yieldPerSquareMeter = grams.yieldPerSquareMeter,
                      ![c].pc = "generateRecommendations"]
    /\ UNCHANGED heap
    /\ SingleCallUnchanged

\* this.generateRecommendations(params, cropParams, recommendations); (line 91)
CallGenerateRecommendations(c) ==
    /\ calls[c].pc = "generateRecommendations"
    /\ heap' = [heap EXCEPT ![calls[c].recommendations] =
                   generateRecommendations(calls[c].params,
                                           CropParamsOf(c),
                                           heap[calls[c].recommendations])]
    /\ calls' = [calls EXCEPT ![c].pc = "return"]
    /\ SingleCallUnchanged

\* The SimulationResult object of call c, its two arrays read through.
ResultOf(c) ==
    [ isViable |-> calls[c].isViable,
      yieldPercentage |-> calls[c].yieldPercentage,
      expectedGrams |-> calls[c].expectedGrams,
      yieldPerSquareMeter |-> calls[c].yieldPerSquareMeter,
      growthTime |-> calls[c].growthTime,
      issues |-> heap[calls[c].issues],
      recommendations |-> heap[calls[c].recommendations] ]

\* return { isViable, ..., issues, recommendations }; (line 94): the caller
\* receives the object and reads it.
CallReturn(c) ==
    /\ calls[c].pc = "return"
    /\ calls' = [calls EXCEPT ![c].pc = "returned", ![c].received = ResultOf(c)]
    /\ UNCHANGED heap
    /\ SingleCallUnchanged

\* One statement of call c, once it is entered.
Step(c) ==
    \/ Allocate(c)
    \/ CallCheckViability(c)
    \/ CallCalculateYield(c)
    \/ CallCalculateGrowthTime(c)
    \/ CallExpectedGrams(c)
    \/ CallGenerateRecommendations(c)
    \/ CallReturn(c)

\* A service on which no call has been made yet.
InitService ==
    /\ NotConstructed
    /\ pc = "start"
    /\ result = NoResult
    /\ yieldLocals = NoResult
    /\ error = "none"
    /\ cropType = "lettuce"
    /\ params = DefaultParameters
    /\ calls = NoCalls
    /\ heap = ServiceObjects

NextService == \E c \in CallIds : Invoke(c, CallInputs) \/ Step(c)

SpecService == InitService /\ [][NextService]_vars

\* One call on the service, with any of the swept inputs.  A call that is entered
\* runs on: the statements of simulateGrowth follow one another with nothing to
\* wait for.
NextCall == Invoke(1, SweptInputs) \/ Step(1)

SpecCallFair == InitService /\ [][NextCall]_vars /\ WF_vars(Step(1))

-----------------------------------------------------------------------------
(* Vocabulary of the properties, stated on the profile and the returned record *)

Returned == pc = "returned"

\* The profile of the call's crop and the range of one of its keys.
Profile == CROP_PARAMETERS[cropType]
LimitsOf(k) == Profile.optimal[k]

\* The effective critical bounds: the declared bound, else the optimal bound.
CriticalLow(k) ==
    IF Len(LimitsOf(k).criticalMin) = 1 THEN LimitsOf(k).criticalMin[1] ELSE LimitsOf(k).min
CriticalHigh(k) ==
    IF Len(LimitsOf(k).criticalMax) = 1 THEN LimitsOf(k).criticalMax[1] ELSE LimitsOf(k).max

BeyondCritical(k) == params[k] < CriticalLow(k) \/ params[k] > CriticalHigh(k)
WithinOptimal(k) == LimitsOf(k).min <= params[k] /\ params[k] <= LimitsOf(k).max

\* The positions in the returned issues list of one kind of issue, and of one
\* kind of issue about one key.
IssuesOfKind(kind) == {i \in DOMAIN result.issues : result.issues[i].kind = kind}
IssuesAbout(kind, k) ==
    {i \in IssuesOfKind(kind) : result.issues[i].name = getParameterName(k)}

-----------------------------------------------------------------------------
(* C1 *)

\* C1: for a known crop, simulateGrowth returns isViable = false if and only if
\* at least one of the 9 readings is below its effective critical minimum or
\* above its effective critical maximum (the declared critical bound, else the
\* optimal bound).
C1_ViableIffWithinCritical ==
    Returned => (result.isViable = FALSE <=> \E k \in KeySet : BeyondCritical(k))

\* pH 3.5 against critical [4.0, 8.0]: not viable.
C1_Witness ==
    /\ Returned
    /\ cropType = "lettuce"
    /\ params.ph = 35
    /\ result.isViable = FALSE

-----------------------------------------------------------------------------
(* C2 *)

-----------------------------------------------------------------------------
(* C3 *)

\* C3: every returned result has 0 <= yieldPercentage <= 100 and
\* 1 <= growthTime <= profile.growthTime.max.
C3_YieldAndTimeBounded ==
    Returned =>
        /\ 0 <= result.yieldPercentage /\ result.yieldPercentage <= 100
        /\ 1 <= result.growthTime /\ result.growthTime <= Profile.growthTime.max

\* A call whose yield is 0 and whose growth time is held at the profile's
\* maximum although the penalties ask for more.
C3_Witness ==
    /\ Returned
    /\ result.yieldPercentage = 0
    /\ result.growthTime = Profile.growthTime.max
    /\ params.airTemperature < LimitsOf("airTemperature").min
    /\ params.lightIntensity < LimitsOf("lightIntensity").min
    /\ 2 * Profile.growthTime.optimal > Profile.growthTime.max

-----------------------------------------------------------------------------
(* C4 *)

\* C4: a call with a crop identifier that has no entry in the registry fails
\* with an UnknownCropError.
C4_UnknownCropError ==
    (pc # "start" /\ cropType \notin KnownCrops) =>
        /\ pc = "thrown"
        /\ error = "UnknownCropError"

-----------------------------------------------------------------------------
(* C5 *)

\* C5: the viability check walks all 9 readings without stopping at the first
\* violation: the number of "risk of death" issues equals the number of readings
\* strictly outside their effective critical bounds, each such reading having
\* its own issue.
C5_EveryCriticalViolationReported ==
    Returned =>
        /\ Cardinality(IssuesOfKind("riskOfDeath"))
               = Cardinality({k \in KeySet : BeyondCritical(k)})
        /\ \A k \in KeySet :
               BeyondCritical(k) => Cardinality(IssuesAbout("riskOfDeath", k)) = 1

\* Two readings beyond their critical bounds, the later one (oxygen, the last
\* key) reported after pH has already made the plant non-viable.
C5_Witness ==
    /\ Returned
    /\ BeyondCritical("ph")
    /\ BeyondCritical("oxygenLevel")
    /\ Cardinality(IssuesOfKind("riskOfDeath")) = 2
    /\ IssuesAbout("riskOfDeath", "oxygenLevel") # {}

-----------------------------------------------------------------------------
(* C6 *)

\* The reading of k is exactly at one of its effective critical bounds, or
\* exactly at one of its optimal bounds.
AtCriticalBound(k) == params[k] = CriticalLow(k) \/ params[k] = CriticalHigh(k)
AtOptimalBound(k) == params[k] = LimitsOf(k).min \/ params[k] = LimitsOf(k).max

\* C6: a reading exactly at its effective critical minimum or maximum raises no
\* viability issue, and the plant stays viable when no other reading is beyond
\* its critical bounds; a reading exactly at its optimal minimum or maximum has
\* impact 1: deviation 0, no yield issue, and a yield of 100 when the other
\* readings are optimal too.
C6_BoundsAreInclusive ==
    Returned =>
        \A k \in KeySet :
            /\ AtCriticalBound(k) =>
                  /\ IssuesAbout("riskOfDeath", k) = {}
                  /\ (\A j \in KeySet \ {k} : ~BeyondCritical(j)) => result.isViable
            /\ AtOptimalBound(k) =>
                  /\ yieldLocals.deviations[k] = <<0>>
                  /\ IssuesAbout("yieldImpact", k) = {}
                  /\ (\A j \in KeySet \ {k} : WithinOptimal(j)) =>
                         result.yieldPercentage = 100

\* pH exactly at its critical minimum 4.0 (below the optimal 5.5) and EC exactly
\* at its optimal minimum: viable, with a yield issue for pH and none for EC.
C6_Witness ==
    /\ Returned
    /\ cropType = "lettuce"
    /\ params.ph = 40
    /\ params.ec = 12
    /\ result.isViable
    /\ IssuesAbout("yieldImpact", "ph") # {}
    /\ IssuesAbout("yieldImpact", "ec") = {}

-----------------------------------------------------------------------------
(* C7 *)

\* The candidate readings for the range `limits` that lie on the same side of
\* the optimal range as the reading v and farther from it.
FartherReadings(v, limits) ==
    LET c == Candidates(limits)
    IN  {c[i] : i \in {j \in DOMAIN c :
            \/ v < limits.min /\ c[j] < v
            \/ v > limits.max /\ c[j] > v}}

\* The nearest of a non-empty set of farther readings.
Nearest(v, farther) == CHOOSE w \in farther : \A u \in farther : Abs(w - v) <= Abs(u - v)

\* The yield percentage of the call with the reading of k replaced by v.
YieldWith(k, v) == calculateYield([params EXCEPT ![k] = v], Profile, << >>).pct

\* C7: for a reading outside its optimal range, every reading farther out on the
\* same side has an impact that is no greater, and, with the other 8 readings
\* kept, the next reading farther out has a yieldPercentage that is no greater
\* (the calls with that next reading are calls of the specification too, so the
\* yields along any chain of farther readings never increase).
C7_FartherNeverBetter ==
    Returned =>
        \A k \in KeySet : \A limits \in {LimitsOf(k)} :
            \A farther \in {FartherReadings(params[k], limits)} :
                /\ \A here \in {Impact(k, params[k], limits)} :
                       \A v \in farther : Impact(k, v, limits) <= here
                /\ farther # {} =>
                       YieldWith(k, Nearest(params[k], farther)) <= result.yieldPercentage

\* pH 5.4 just under the optimal 5.5 while EC is off too: moving pH out to 4.7
\* strictly lowers its impact and the yield.
C7_Witness ==
    /\ Returned
    /\ cropType = "lettuce"
    /\ params.ph = 54
    /\ params.ec = 6
    /\ 47 \in FartherReadings(params.ph, LimitsOf("ph"))
    /\ Impact("ph", 47, LimitsOf("ph")) < Impact("ph", 54, LimitsOf("ph"))
    /\ YieldWith("ph", 47) < result.yieldPercentage

-----------------------------------------------------------------------------
(* C8 *)

\* The linear score of the reading of k.
LinearOf(k) ==
    computeLinearNormalized(params[k], LimitsOf(k).min, LimitsOf(k).max,
                            CriticalLow(k), CriticalHigh(k))

\* L is the fraction num / den, to the step of the fixed point.
IsFraction(L, num, den) ==
    LET high == (L \div Limb) * den - num * Limb   \* (L * den - num * Scale) \div Limb,
        low  == (L % Limb) * den                   \* and what is left of it
    IN  /\ -den <= high /\ high <= den
        /\ Abs(high * Limb + low) <= den

\* The score L is within [0, 1] and the impact it gives with `weight` is within
\* [0.01^(1+weight), 1].
ScoreAndImpactInRange(L, weight) ==
    /\ 0 <= L /\ L <= Scale
    /\ \A impact \in {ImpactOf(L, weight)} :
          /\ MathPow(Scale \div 100, 10 + weight) <= impact
          /\ impact <= Scale

\* The score L of the reading v is linear strictly between a critical bound
\* (cmin, cmax) and the optimal bound it belongs to (min, max).
ScoreLinearBetween(L, v, min, max, cmin, cmax) ==
    /\ (cmin < v /\ v < min) => IsFraction(L, v - cmin, min - cmin)
    /\ (max < v /\ v < cmax) => IsFraction(L, cmax - v, cmax - max)

\* C8 as stated: for every key and reading, L is in [0, 1], 1 at the optimal
\* boundary, 0 at or beyond the critical boundary, linear in between, and the
\* impact is in [0.01^(1+weight), 1].
C8_AsStated ==
    Returned =>
        \A k \in KeySet :
            \A L \in {LinearOf(k)}, lo \in {CriticalLow(k)}, hi \in {CriticalHigh(k)} :
                /\ ScoreAndImpactInRange(L, PARAM_WEIGHTS[k])
                /\ AtOptimalBound(k) => L = Scale
                /\ (params[k] <= lo \/ params[k] >= hi) => L = 0
                /\ ScoreLinearBetween(L, params[k], LimitsOf(k).min, LimitsOf(k).max,
                                      lo, hi)

\* C8 as amended: L is in [0, 1]; 1 on the optimal range, its boundaries
\* included; 0 at or beyond a critical boundary for a reading outside the
\* optimal range; linear in between; the impact is in [0.01^(1+weight), 1].
C8_ScoreAndImpactShape ==
    Returned =>
        \A k \in KeySet :
            \A L \in {LinearOf(k)}, lo \in {CriticalLow(k)}, hi \in {CriticalHigh(k)} :
                /\ ScoreAndImpactInRange(L, PARAM_WEIGHTS[k])
                /\ WithinOptimal(k) => L = Scale
                /\ (~WithinOptimal(k) /\ (params[k] <= lo \/ params[k] >= hi)) => L = 0
                /\ ScoreLinearBetween(L, params[k], LimitsOf(k).min, LimitsOf(k).max,
                                      lo, hi)

\* pH 4.7, strictly between the critical 4.0 and the optimal 5.5: L is 7/15, and
\* the impact lies strictly between its floor and 1.
C8_Witness ==
    /\ Returned
    /\ cropType = "lettuce"
    /\ params.ph = 47
    /\ IsFraction(LinearOf("ph"), 7, 15)
    /\ yieldLocals.deviations.ph # <<0>>
    /\ yieldLocals.yieldMultiplier > MathPow(Scale \div 100, 10 + PARAM_WEIGHTS.ph)
    /\ yieldLocals.yieldMultiplier < Scale

-----------------------------------------------------------------------------
(* C9 *)

\* The impact of key number i as the claim reads it: 1 for a reading inside its
\* optimal range, the weighted score otherwise.
ImpactAt(i) ==
    IF WithinOptimal(parameterKeys[i]) THEN Scale
    ELSE Impact(parameterKeys[i], params[parameterKeys[i]], LimitsOf(parameterKeys[i]))

\* The product of the impacts of the first n keys, taken in key order.
RECURSIVE ImpactProduct(_)
ImpactProduct(n) == IF n = 0 THEN Scale ELSE FMul(ImpactProduct(n - 1), ImpactAt(n))

\* deviation = |1 - impact|
DeviationAt(i) == Abs(Scale - ImpactAt(i))

\* deviation[EC] > 0.2 and deviation[pH] > 0.15 (EC is key 2, pH key 1).
BothDeviate == DeviationAt(2) > Scale \div 5 /\ DeviationAt(1) > (3 * Scale) \div 20

\* C9: the yield multiplier is the product of the 9 impacts times 0.9 exactly
\* when deviation[EC] > 0.2 and deviation[pH] > 0.15 hold together, and the bare
\* product of the 9 impacts in every other case.
C9_InteractionPenalty ==
    Returned =>
        yieldLocals.yieldMultiplier =
            IF BothDeviate
            THEN FMul(ImpactProduct(Len(parameterKeys)), (Scale \div 10) * 9)
            ELSE ImpactProduct(Len(parameterKeys))

\* pH 4.7 and EC 0.6 with the other readings optimal: both deviations are above
\* their thresholds and the multiplier is below the product of the impacts.
C9_Witness ==
    /\ Returned
    /\ cropType = "lettuce"
    /\ params.ph = 47
    /\ params.ec = 6
    /\ BothDeviate
    /\ ImpactProduct(Len(parameterKeys)) > Scale \div 100
    /\ yieldLocals.yieldMultiplier < ImpactProduct(Len(parameterKeys))

-----------------------------------------------------------------------------
(* C10 *)

\* 1.5, 1.3 or 1.2 in tenths when the reading of k is below its optimal minimum.
Slowdown(k, tenths) == IF params[k] < LimitsOf(k).min THEN tenths ELSE 10

\* optimal * m, in thousandths of a day.
SlowedTimeThousandths ==
    Profile.growthTime.optimal
        * Slowdown("airTemperature", 15)
        * Slowdown("lightIntensity", 13)
        * Slowdown("co2Level", 12)

\* C10: growthTime = min(round(optimal * m), profile.growthTime.max), m the
\* product of 1.5 (air temperature below its optimal minimum), 1.3 (light
\* below) and 1.2 (CO2 below).
C10_GrowthTimeFormula ==
    Returned =>
        result.growthTime =
            LET rounded == (SlowedTimeThousandths + 500) \div 1000
            IN  IF rounded <= Profile.growthTime.max
                THEN rounded ELSE Profile.growthTime.max

\* Air temperature and light below their optimal minimum, CO2 at its optimum:
\* round(30 * 1.5 * 1.3) = round(58.5) = 59, under the maximum of 60.
C10_Witness ==
    /\ Returned
    /\ cropType = "lettuce"
    /\ params.airTemperature < LimitsOf("airTemperature").min
    /\ params.lightIntensity < LimitsOf("lightIntensity").min
    /\ WithinOptimal("co2Level")
    /\ result.growthTime = 59

-----------------------------------------------------------------------------
(* C11 *)

\* The per-parameter directives of the returned recommendations, in their order.
IsDirective(r) == r.kind \in {"raise", "lower"}
Directives == SelectSeq(result.recommendations, IsDirective)

\* The keys whose reading is outside its optimal range, in the fixed key order.
IsOff(k) == ~WithinOptimal(k)
KeysOff == SelectSeq(parameterKeys, IsOff)

\* C11: the directives of the returned recommendations are, in the fixed key
\* order, exactly one per reading outside its optimal range -- a raise when
\* the reading is below optimal.min, a lower when it is above optimal.max --
\* each naming the parameter, the current value and the optimal range; a
\* reading inside [min, max] has no directive.
C11_OneDirectivePerKeyInOrder ==
    Returned =>
        /\ Len(Directives) = Len(KeysOff)
        /\ \A i \in DOMAIN KeysOff :
              \A k \in {KeysOff[i]} :
                  Directives[i] =
                      [ kind  |-> IF params[k] < LimitsOf(k).min THEN "raise" ELSE "lower",
                        name  |-> getParameterName(k),
                        value |-> params[k],
                        lo    |-> LimitsOf(k).min,
                        hi    |-> LimitsOf(k).max ]

\* Humidity above its optimum and, earlier in the key order, pH below: a raise
\* for pH first, then a lower for humidity, and nothing else.
C11_Witness ==
    /\ Returned
    /\ cropType = "lettuce"
    /\ params.ph = 54
    /\ params.humidity = 71
    /\ Len(result.recommendations) = 2
    /\ result.recommendations[1].kind = "raise"
    /\ result.recommendations[1].name = "pH"
    /\ result.recommendations[2].kind = "lower"
    /\ result.recommendations[2].name = "Humidity"

-----------------------------------------------------------------------------
(* C12 *)

\* The positions of the combined pH/EC advisory in the returned recommendations.
AdvisoryPositions ==
    {i \in DOMAIN result.recommendations : result.recommendations[i] = CombinedAdvisory}

\* The reading of k is more than `threshold` tenths from the middle of its optimal
\* range, in exact arithmetic.
DeviatesMoreThan(k, threshold) ==
    Abs(2 * params[k] - (LimitsOf(k).min + LimitsOf(k).max)) > 2 * threshold

\* C12: the combined pH/EC advisory is in the returned recommendations exactly
\* once, as the last one, if and only if |EC - middle of EC's optimal range| > 0.8
\* and |pH - middle of pH's optimal range| > 0.4; when either deviation is at or
\* below its threshold the advisory is not in the list.
C12_AsStated ==
    Returned =>
        IF DeviatesMoreThan("ec", 8) /\ DeviatesMoreThan("ph", 4)
        THEN AdvisoryPositions = {Len(result.recommendations)}
        ELSE AdvisoryPositions = {}

-----------------------------------------------------------------------------
(* C13 *)

\* The impact of the reading of k: 1 inside the optimal range, else the power of
\* its floored linear score.
ImpactOfKey(k) ==
    IF WithinOptimal(k) THEN Scale ELSE Impact(k, params[k], LimitsOf(k))

\* The yield multiplier built from the readings outside their optimal range
\* alone, taken in key order from index i on.
RECURSIVE ProductOutsideOptimal(_, _)
ProductOutsideOptimal(i, acc) ==
    IF i > Len(parameterKeys) THEN acc
    ELSE ProductOutsideOptimal(i + 1,
             IF WithinOptimal(parameterKeys[i]) THEN acc
             ELSE FMul(acc, ImpactOfKey(parameterKeys[i])))

\* C13: calculateYield appends exactly one yield-penalty issue for each parameter
\* whose impact is below 1 and none for any other parameter; a parameter inside
\* [optimal.min, optimal.max] gets no issue, has deviation 0 and leaves the yield
\* multiplier unchanged: the multiplier is the product of the impacts of the
\* parameters outside their optimal range (times the interaction penalty, if any).
C13_OneYieldIssuePerPenalty ==
    Returned =>
        /\ \A k \in KeySet :
              /\ Cardinality(IssuesAbout("yieldImpact", k))
                    = IF ImpactOfKey(k) < Scale THEN 1 ELSE 0
              /\ WithinOptimal(k) =>
                    /\ IssuesAbout("yieldImpact", k) = {}
                    /\ yieldLocals.deviations[k] = Some(0)
        /\ \E product \in {ProductOutsideOptimal(1, Scale)} :
              yieldLocals.yieldMultiplier
                  \in {product, FMul(product, interactionPenalty)}

\* A lettuce call with pH 5.4 and humidity 71, the rest optimal: one yield issue
\* for each of the two, none for EC, whose deviation is 0.
C13_Witness ==
    /\ Returned
    /\ cropType = "lettuce"
    /\ params.ph = 54 /\ params.humidity = 71
    /\ \A k \in KeySet \ {"ph", "humidity"} : WithinOptimal(k)
    /\ Cardinality(IssuesAbout("yieldImpact", "ph")) = 1
    /\ Cardinality(IssuesAbout("yieldImpact", "humidity")) = 1
    /\ IssuesAbout("yieldImpact", "ec") = {}
    /\ Len(result.issues) = 2
    /\ yieldLocals.deviations.ec = Some(0)
    /\ yieldLocals.yieldMultiplier
          = FMul(ImpactOfKey("ph"), ImpactOfKey("humidity"))
    /\ yieldLocals.yieldMultiplier < Scale

-----------------------------------------------------------------------------
(* C14 *)

\* Example A: pH 5.0 against the optimal range 5.5-6.5 with critical bounds 4.0
\* and 8.0 and weight 1.2, the other eight readings at the middle of their
\* optimal range.
ExampleA ==
    /\ Returned
    /\ LimitsOf("ph").min = 55 /\ LimitsOf("ph").max = 65
    /\ CriticalLow("ph") = 40 /\ CriticalHigh("ph") = 80
    /\ PARAM_WEIGHTS.ph = 12
    /\ params.ph = 50
    /\ \A k \in KeySet \ {"ph"} : params[k] = Middle(LimitsOf(k))

\* x is about the given number of thousandths: within 0.005 of it.
AboutThousandths(x, thousandths) ==
    Abs(x - thousandths * (Scale \div 1000)) <= 5 * (Scale \div 1000)

\* What Example A leaves besides the numbers: L = (5.0 - 4.0) / (5.5 - 4.0),
\* exactly one issue, the yield issue for pH, and exactly one recommendation, to
\* raise pH to 5.5-6.5.
ExampleAShape ==
    /\ IsFraction(LinearOf("ph"), 50 - 40, 55 - 40)
    /\ Len(result.issues) = 1
    /\ result.issues[1].kind = "yieldImpact"
    /\ result.issues[1].name = getParameterName("ph")
    /\ result.recommendations
          = << Recommendation("raise", "ph", 50, [min |-> 55, max |-> 65]) >>

\* C14 as stated: in Example A, L = (5.0 - 4.0) / (5.5 - 4.0), the impact is about
\* 0.416 and yieldPercentage is 42, with exactly one issue (for pH) and exactly
\* one recommendation (raise pH to 5.5-6.5).
C14_AsStated ==
    ExampleA =>
        /\ ExampleAShape
        /\ AboutThousandths(yieldLocals.yieldMultiplier, 416)
        /\ result.yieldPercentage = 42

\* C14 as amended: in Example A, L = (5.0 - 4.0) / (5.5 - 4.0), the impact is about
\* 0.410 (0.667^2.2 = 0.4098) and yieldPercentage is 41, with exactly one issue
\* (for pH, naming 41 %) and exactly one recommendation (raise pH to 5.5-6.5).
C14_ExampleA ==
    ExampleA =>
        /\ ExampleAShape
        /\ AboutThousandths(yieldLocals.yieldMultiplier, 410)
        /\ yieldLocals.yieldMultiplier = ImpactOfKey("ph")
        /\ result.yieldPercentage = 41
        /\ result.issues[1].percent = 41

\* The call of Example A for lettuce has returned, with yield 41 %.
C14_Witness ==
    /\ ExampleA
    /\ cropType = "lettuce"
    /\ params.ec = 16
    /\ result.yieldPercentage = 41
    /\ Len(result.issues) = 1
    /\ Len(result.recommendations) = 1

-----------------------------------------------------------------------------
(* C15 *)

\* The readings that are outside their optimal range.
KeysOutsideOptimal == {k \in KeySet : ~WithinOptimal(k)}

\* C15: the floor max(0.01, L) keeps every parameter's multiplier above zero, so
\* a call in which a single reading is outside its optimal range (the 8 others
\* inside theirs) never returns a zero yield.
C15_AsStated ==
    (Returned /\ Cardinality(KeysOutsideOptimal) <= 1) =>
        /\ \A k \in KeySet : ImpactOfKey(k) > 0
        /\ yieldLocals.yieldMultiplier > 0
        /\ result.yieldPercentage > 0

-----------------------------------------------------------------------------
(* C16 *)

\* The maxYield the profile declares, if it declares one.
DeclaresMaxYield == "maxYield" \in DOMAIN Profile
DeclaredMaxYield == IF DeclaresMaxYield THEN Profile.maxYield ELSE 0

-----------------------------------------------------------------------------
(* C17 *)

\* The reading of k is below an optimal minimum that has no critical bound under
\* it, or above an optimal maximum that has none over it.
BelowDegenerate(k) == params[k] < LimitsOf(k).min /\ CriticalLow(k) >= LimitsOf(k).min
AboveDegenerate(k) == params[k] > LimitsOf(k).max /\ CriticalHigh(k) <= LimitsOf(k).max

\* 0.01^(1 + weight of k)
ImpactAtFloor(k) == MathPow(Scale \div 100, 10 + PARAM_WEIGHTS[k])

\* C17: when the effective criticalMin is >= the optimal min (declared equal, or
\* not declared), every value below the optimal min gets L = 0, and when the
\* effective criticalMax is <= the optimal max every value above the optimal max
\* gets L = 0; the call returns (nothing is divided by zero), and the impact of
\* such a reading is exactly 0.01^(1+weight): it is the deviation recorded for
\* the key and, the reading being the only one off, the yield multiplier.
C17_DegenerateRangeScoresZero ==
    Returned =>
        \A k \in KeySet :
            (BelowDegenerate(k) \/ AboveDegenerate(k)) =>
                /\ LinearOf(k) = 0
                /\ ImpactOfKey(k) = ImpactAtFloor(k)
                /\ ImpactAtFloor(k) > 0
                /\ yieldLocals.deviations[k] = Some(Scale - ImpactAtFloor(k))
                /\ KeysOutsideOptimal = {k} =>
                      yieldLocals.yieldMultiplier = ImpactAtFloor(k)

\* A basil call with pH 5.4: basil declares no critical pH, so 5.4, just under
\* the optimal 5.5, scores 0 and the multiplier is 0.01^2.2.
C17_Witness ==
    /\ Returned
    /\ cropType = "basil"
    /\ LimitsOf("ph").criticalMin = Undefined
    /\ params.ph = 54
    /\ BelowDegenerate("ph")
    /\ LinearOf("ph") = 0
    /\ yieldLocals.yieldMultiplier = ImpactAtFloor("ph")
    /\ AboutThousandths(1000 * yieldLocals.yieldMultiplier, 40)

-----------------------------------------------------------------------------
(* C18 *)

\* Call c is entered and has not returned.
Running(c) == calls[c].pc \notin {"idle", "returned"}

\* Call c has returned a full SimulationResult: every field is there, of its type.
Completed(c) ==
    /\ calls[c].pc = "returned"
    /\ \A r \in {ResultOf(c)} :
          /\ r.isViable \in BOOLEAN
          /\ r.yieldPercentage \in 0..100
          /\ r.expectedGrams \in Nat
          /\ r.yieldPerSquareMeter \in Nat
          /\ r.growthTime \in Nat
          /\ r.issues \in Seq({r.issues[i] : i \in DOMAIN r.issues})
          /\ r.recommendations
                \in Seq({r.recommendations[i] : i \in DOMAIN r.recommendations})

\* C18: for a known crop, simulateGrowth accepts any 9 numeric readings, a
\* negative pH included: no statement of a call that is entered fails to run (the
\* call is never rejected, nothing throws), and every call that is entered
\* completes, returning a full SimulationResult.
C18_AlwaysCompletes ==
    /\ [](\A c \in CallIds : Running(c) => ENABLED Step(c))
    /\ \A c \in CallIds : (calls[c].pc # "idle") ~> Completed(c)

\* A lettuce call with pH -0.5 has returned: not viable, the negative pH reported
\* and scored, a raise recommended.
C18_Witness ==
    /\ Completed(1)
    /\ calls[1].cropType = "lettuce"
    /\ calls[1].params.ph = -5
    /\ ResultOf(1).isViable = FALSE
    /\ ResultOf(1).yieldPercentage = 0
    /\ \E i \in DOMAIN ResultOf(1).issues :
          /\ ResultOf(1).issues[i].kind = "riskOfDeath"
          /\ ResultOf(1).issues[i].value = -5
    /\ ResultOf(1).recommendations
          = << Recommendation("raise", "ph", -5, [min |-> 55, max |-> 65]) >>

-----------------------------------------------------------------------------
(* C19 *)

\* Calls c and d were made with equal parameters for the same crop profile, and
\* both have returned.
SameCallReturned(c, d) ==
    /\ calls[c].pc = "returned" /\ calls[d].pc = "returned"
    /\ calls[c].cropType = calls[d].cropType
    /\ calls[c].params = calls[d].params

\* C19: two calls with equal parameters and the same crop profile return results
\* equal in every field (isViable, yieldPercentage, expectedGrams,
\* yieldPerSquareMeter, growthTime, and the issues and recommendations lists
\* element by element), whatever was called before or in between.
C19_Deterministic ==
    \A c, d \in CallIds :
        SameCallReturned(c, d) =>
            \A r \in {calls[c].received}, q \in {calls[d].received} :
                /\ r.isViable = q.isViable
                /\ r.yieldPercentage = q.yieldPercentage
                /\ r.expectedGrams = q.expectedGrams
                /\ r.yieldPerSquareMeter = q.yieldPerSquareMeter
                /\ r.growthTime = q.growthTime
                /\ Len(r.issues) = Len(q.issues)
                /\ \A i \in DOMAIN r.issues : r.issues[i] = q.issues[i]
                /\ Len(r.recommendations) = Len(q.recommendations)
                /\ \A i \in DOMAIN r.recommendations :
                      r.recommendations[i] = q.recommendations[i]

\* The same lettuce call (pH 5.6, EC 0.5) made twice: both results carry the
\* one yield issue, the EC directive and the advisory.
C19_Witness ==
    /\ SameCallReturned(1, 2)
    /\ calls[1].cropType = "lettuce"
    /\ calls[1].params.ph = 56 /\ calls[1].params.ec = 5
    /\ Len(calls[1].received.issues) = 1
    /\ Len(calls[2].received.issues) = 1
    /\ Len(calls[2].received.recommendations) = 2
    /\ calls[2].received.recommendations[2] = CombinedAdvisory
    /\ calls[1].received = calls[2].received

-----------------------------------------------------------------------------
(* C20 *)

\* The arrays call c allocated.
ArraysOf(c) ==
    IF calls[c].pc \in {"idle", "allocate"} THEN {}
    ELSE {calls[c].issues, calls[c].recommendations}

\* C20: calls interleaved in any order on the one service do not interfere: each
\* call has its own issues and recommendations arrays, and the result of every
\* call that has returned, as its caller received it and as it is read at any
\* later time, equals the result of that call run alone.
C20_NoInterference ==
    /\ \A c \in CallIds :
          /\ calls[c].pc \notin {"idle", "allocate"} =>
                calls[c].issues # calls[c].recommendations
          /\ \A d \in CallIds \ {c} : ArraysOf(c) \cap ArraysOf(d) = {}
    /\ \A c \in CallIds :
          calls[c].pc = "returned" =>
              \A alone \in {simulateGrowth(calls[c].cropType, calls[c].params).result} :
                  /\ calls[c].received = alone
                  /\ ResultOf(c) = alone

\* Call 1 (pH -0.5) has returned while call 2 (basil, pH 5.4) is half way,
\* its issues pushed and its recommendations not yet: the result of call 1 holds
\* its own two issues and nothing of call 2.
C20_Witness ==
    /\ calls[1].pc = "returned"
    /\ calls[1].cropType = "lettuce" /\ calls[1].params.ph = -5
    /\ calls[2].pc = "generateRecommendations"
    /\ calls[2].cropType = "basil" /\ calls[2].params.ph = 54
    /\ Len(heap[calls[2].issues]) > 0
    /\ Len(ResultOf(1).issues) = 2
    /\ ResultOf(1) = calls[1].received
    /\ ResultOf(1) = simulateGrowth("lettuce", calls[1].params).result

-----------------------------------------------------------------------------
(* C21 *)

\* The profiles and the weights are as they were constructed.
ConfigurationIntact ==
    /\ \A crop \in KnownCrops : heap[ProfileObject(crop)] = CROP_PARAMETERS[crop]
    /\ heap[WeightsObject] = PARAM_WEIGHTS

\* The parameters a call was entered with are the ones it holds after the step.
ParametersKept ==
    \A c \in CallIds :
        calls[c].pc # "idle" =>
            /\ calls'[c].cropType = calls[c].cropType
            /\ calls'[c].params = calls[c].params

\* C21: simulateGrowth never writes to the crop profile (the registry entry, its
\* ranges, growthTime, maxYield), to PARAM_WEIGHTS or to the parameters it was
\* given: after any sequence of calls they equal their values before the first.
C21_NothingButTheResultChanges ==
    /\ []ConfigurationIntact
    /\ [][ParametersKept]_vars

\* Two calls have returned, one of them with issues and recommendations, and
\* the profiles, the weights and the parameters of the calls are as given.
C21_Witness ==
    /\ calls[1].pc = "returned" /\ calls[2].pc = "returned"
    /\ calls[1].params = [Optimal("lettuce") EXCEPT !.ph = 56, !.ec = 5]
    /\ Len(calls[1].received.issues) > 0
    /\ calls[2].cropType = "basil"
    /\ ConfigurationIntact

-----------------------------------------------------------------------------
(* C22 *)

\* The place of an issue in the fixed order: the component that pushed it
\* (checkViability before calculateYield), then its key's index in parameterKeys.
ComponentRank(issue) == IF issue.kind = "riskOfDeath" THEN 0 ELSE 1
KeyRank(issue) ==
    CHOOSE i \in DOMAIN parameterKeys : getParameterName(parameterKeys[i]) = issue.name
IssueRank(issue) == ComponentRank(issue) * Len(parameterKeys) + KeyRank(issue)

\* C22: the components run in the fixed order viability, yield, growth time,
\* recommendations: in the returned issues every "risk of death" issue precedes
\* every yield-penalty issue, and within each group the issues follow the fixed
\* parameter order.
C22_IssuesInComponentAndKeyOrder ==
    Returned =>
        \A i, j \in DOMAIN result.issues :
            i < j => IssueRank(result.issues[i]) < IssueRank(result.issues[j])

\* pH and EC are both beyond their critical bounds: two issues of each group.
C22_Witness ==
    /\ Returned
    /\ BeyondCritical("ph") /\ BeyondCritical("ec")
    /\ Len(result.issues) = 4
    /\ result.issues[2].kind = "riskOfDeath"
    /\ result.issues[3].kind = "yieldImpact"

-----------------------------------------------------------------------------
(* C23 *)

\* The readings that slow growth: air temperature, light or CO2 below its
\* optimal minimum.
SlowingKeys == {k \in GrowthKeys : params[k] < LimitsOf(k).min}

\* The call's readings with every reading that is not a slowing one put back in
\* the middle of its optimal range.
OnlySlowingReadings ==
    [ k \in KeySet |-> IF k \in SlowingKeys THEN params[k] ELSE Middle(LimitsOf(k)) ]

\* C23: growth time is penalised only for air temperature, light and CO2 below
\* their optimal minimum: a value of these above the optimal maximum, and any
\* value of the other six parameters, leaves growthTime unchanged.
C23_OnlyDeficitsSlowGrowth ==
    Returned =>
        /\ result.growthTime = calculateGrowthTime(OnlySlowingReadings, Profile)
        /\ SlowingKeys = {} => result.growthTime = Profile.growthTime.optimal

\* Air temperature above its optimal maximum and pH beyond its critical bound:
\* the plant is not viable, and the growth time is the optimal one.
C23_Witness ==
    /\ Returned
    /\ params.airTemperature > LimitsOf("airTemperature").max
    /\ BeyondCritical("ph")
    /\ ~result.isViable
    /\ result.growthTime = Profile.growthTime.optimal

-----------------------------------------------------------------------------
(* C24 *)

\* The profile's effective critical bounds enclose its optimal ranges.
CriticalEnclosesOptimal ==
    \A k \in KeySet :
        CriticalLow(k) <= LimitsOf(k).min /\ CriticalHigh(k) >= LimitsOf(k).max

-----------------------------------------------------------------------------
(* C25 *)

\* The positions of the directives about one key in the returned recommendations.
DirectivesAbout(k) ==
    { i \in DOMAIN result.recommendations :
        /\ IsDirective(result.recommendations[i])
        /\ result.recommendations[i].name = getParameterName(k) }

\* C25: in every result a parameter has a yield-penalty issue if and only if it
\* has a raise/lower recommendation; the number of yield-penalty issues equals
\* the number of recommendations not counting the combined pH/EC advisory; and
\* every parameter with a "risk of death" issue also has a yield-penalty issue
\* and a recommendation.
C25_IssuesMatchDirectives ==
    Returned =>
        /\ \A k \in KeySet :
              /\ IssuesAbout("yieldImpact", k) # {} <=> DirectivesAbout(k) # {}
              /\ IssuesAbout("riskOfDeath", k) # {} =>
                    /\ IssuesAbout("yieldImpact", k) # {}
                    /\ DirectivesAbout(k) # {}
        /\ Cardinality(IssuesOfKind("yieldImpact")) = Len(Directives)

\* EC above its optimal range but within its critical bound, pH beyond its
\* critical bound, and both far from the middle: three issues, two directives
\* and the advisory.
C25_Witness ==
    /\ Returned
    /\ BeyondCritical("ph")
    /\ params.ec > LimitsOf("ec").max /\ ~BeyondCritical("ec")
    /\ Len(result.issues) = 3
    /\ Len(result.recommendations) = 3
    /\ Len(Directives) = 2
    /\ IssuesAbout("riskOfDeath", "ph") # {}
    /\ DirectivesAbout("ph") # {} /\ DirectivesAbout("ec") # {}

-----------------------------------------------------------------------------
(* GrowthModel *)

\* The parameters a GrowthModel is constructed with: the lettuce defaults.
ConstructedParameters ==
    [ k \in KeySet \cup {"cropType"} |->
        IF k = "cropType" THEN "lettuce" ELSE DefaultParameters[k] ]

\* { ...old, ...update }: the keys of both, the update's value where it has one.
Spread(old, update) ==
    [ k \in DOMAIN old \cup DOMAIN update |->
        IF k \in DOMAIN update THEN update[k] ELSE old[k] ]

\* The identity of the n-th parameters object.
ParametersObject(n) == << "parameters", n, "GrowthModel" >>

\* The objects reachable from an optional reference.
Held(optional) == {optional[i] : i \in DOMAIN optional}

\* The parameter objects that the model, its caller and the view hold.
Reachable == {model.parameters} \cup Held(client.copy) \cup Held(view.parameters)

\* The identity of the object an object literal creates: one not in use.
NewObject(used) ==
    ParametersObject(CHOOSE n \in 1..(Cardinality(used) + 1) :
        /\ ParametersObject(n) \notin used
        /\ \A m \in 1..(n - 1) : ParametersObject(m) \in used)

\* The heap with `contents` stored at ref, and only the objects of `kept` left
\* (an object that nothing refers to is not observable).
Store(ref, contents, kept) ==
    [ r \in kept \cup {ref} |-> IF r = ref THEN contents ELSE heap[r] ]

\* The partial updates a caller passes to setParameters.
Updates ==
    { << >>, [cropType |-> "basil"], [ph |-> 54], [ph |-> 60, ec |-> 5] }

\* What a caller writes into the object it got from getParameters.
Mutations == { [ph |-> 0], [cropType |-> "microgreens"] }

\* The caller's last call: its name and its argument (none: the empty update).
Called(op, update) == [op |-> op, update |-> update]

\* A model right after its construction (lines 37-54), and a caller that has not
\* called it yet.
Constructed ==
    /\ model = [parameters |-> ParametersObject(1), result |-> NoResult]
    /\ heap = [r \in {ParametersObject(1)} |-> ConstructedParameters]
    /\ simulated = Undefined
    /\ client = [copy |-> Undefined, call |-> Called("new", << >>),
                 returned |-> Undefined]

\* The service of the model is not in a call of its own.
ServiceIdle ==
    /\ pc = "start"
    /\ result = NoResult
    /\ yieldLocals = NoResult
    /\ error = "none"
    /\ cropType = "lettuce"
    /\ params = DefaultParameters
    /\ calls = NoCalls

InitModel ==
    /\ ServiceIdle
    /\ Constructed
    /\ view = [parameters |-> Undefined]
    /\ store = Undefined
    /\ calculator = Undefined

ModelUnchanged == UNCHANGED <<serviceVars, view, store, calculator>>

\* Mutant of SetParameters: the cached result is dropped with the old parameters.
SetParametersClearsResult(update) ==
    /\ \E ref \in {NewObject(Reachable)} :
          /\ model' = [parameters |-> ref, result |-> NoResult]
          /\ heap' = Store(ref, Spread(heap[model.parameters], update),
                           Held(client.copy) \cup Held(view.parameters))
    /\ client' = [client EXCEPT !.call = Called("setParameters", update),
                                !.returned = Undefined]
    /\ UNCHANGED simulated
    /\ ModelUnchanged

\* setParameters(params): this.parameters = { ...this.parameters, ...params };
SetParameters(update) ==
    /\ \E ref \in {NewObject(Reachable)} :
          /\ model' = [model EXCEPT !.parameters = ref]
          /\ heap' = Store(ref, Spread(heap[model.parameters], update),
                           Held(client.copy) \cup Held(view.parameters))
    /\ client' = [client EXCEPT !.call = Called("setParameters", update),
                                !.returned = Undefined]
    /\ UNCHANGED simulated
    /\ ModelUnchanged

\* Mutant of GetParameters: the model's own object is returned.
GetParametersItself ==
    /\ client' = [client EXCEPT !.copy = Some(model.parameters),
                                !.call = Called("getParameters", << >>),
                                !.returned = Undefined]
    /\ heap' = [r \in {model.parameters} \cup Held(view.parameters) |-> heap[r]]
    /\ UNCHANGED <<model, simulated>>
    /\ ModelUnchanged

\* getParameters(): return { ...this.parameters }; the caller keeps the object.
GetParameters ==
    /\ \E ref \in {NewObject({model.parameters} \cup Held(view.parameters))} :
          /\ client' = [client EXCEPT !.copy = Some(ref),
                                      !.call = Called("getParameters", << >>),
                                      !.returned = Undefined]
          /\ heap' = Store(ref, Spread(heap[model.parameters], << >>),
                           {model.parameters} \cup Held(view.parameters))
    /\ UNCHANGED <<model, simulated>>
    /\ ModelUnchanged

\* The caller assigns to properties of the object getParameters returned.
MutateCopy(mutation) ==
    /\ client.copy # Undefined
    /\ heap' = [heap EXCEPT ![client.copy[1]] = Spread(@, mutation)]
    /\ client' = [client EXCEPT !.call = Called("mutate", mutation),
                                !.returned = Undefined]
    /\ UNCHANGED <<model, simulated>>
    /\ ModelUnchanged

\* getResult(): return this.result;
GetResult ==
    /\ client' = [client EXCEPT !.call = Called("getResult", << >>),
                                !.returned = Some(model.result)]
    /\ UNCHANGED <<model, simulated, heap>>
    /\ ModelUnchanged

\* simulate(): this.result = this.simulationService.simulateGrowth(this.parameters);
\* return this.result;
Simulate ==
    /\ heap[model.parameters].cropType \in KnownCrops
    /\ \E p \in {heap[model.parameters]} :
       \E r \in {simulateGrowth(p.cropType, p).result} :
          /\ model' = [model EXCEPT !.result = r]
          /\ simulated' = Some(p)
          /\ client' = [client EXCEPT !.call = Called("simulate", << >>),
                                      !.returned = Some(r)]
    /\ UNCHANGED heap
    /\ ModelUnchanged

NextModel ==
    \/ \E update \in Updates : SetParameters(update)
    \/ GetParameters
    \/ \E mutation \in Mutations : MutateCopy(mutation)
    \/ GetResult
    \/ Simulate

SpecModel == InitModel /\ [][NextModel]_vars

-----------------------------------------------------------------------------
(* C26 *)

\* The parameters of the model, and what simulateGrowth returns for the
\* parameters of the model's last simulate (null before the first).
ModelParameters == heap[model.parameters]
ResultOfLastSimulate ==
    IF simulated = Undefined THEN NoResult
    ELSE simulateGrowth(simulated[1].cropType, simulated[1]).result

\* C26: getResult returns null if and only if simulate has never been called on
\* the model; after any sequence of setParameters and simulate calls it returns
\* the result of the most recent simulate, computed from the parameters as they
\* were at that call: a later setParameters neither clears nor recomputes it.
C26_ResultIsOfLastSimulate ==
    /\ [](model.result = NoResult <=> simulated = Undefined)
    /\ [](model.result = ResultOfLastSimulate)
    /\ [][client'.call.op = "getResult" =>
            client'.returned = Some(ResultOfLastSimulate)]_vars
    /\ [][client'.call.op = "setParameters" =>
            model'.result = model.result]_vars

\* getResult has returned the result of a simulate that ran before the
\* parameters were changed: pH is 5.4 now, the result is the one of pH 6.0.
C26_Witness ==
    /\ client.call.op = "getResult"
    /\ simulated # Undefined
    /\ simulated[1].ph = 60
    /\ ModelParameters.ph = 54
    /\ client.returned = Some(model.result)
    /\ model.result.yieldPercentage = 100

-----------------------------------------------------------------------------
(* C27 *)

\* C27: setParameters merges a partial update (a key present in the update takes
\* the new value, an absent one keeps its previous value, starting from the
\* lettuce defaults); getParameters returns a copy, so writing to the returned
\* object never changes the parameters a later simulate uses.
C27_MergeAndCopy ==
    /\ ModelParameters = ConstructedParameters
    /\ [][client'.call.op = "setParameters" =>
            \A k \in DOMAIN ConstructedParameters :
                ModelParameters'[k] =
                    IF k \in DOMAIN client'.call.update
                    THEN client'.call.update[k] ELSE ModelParameters[k]]_vars
    /\ [][client'.call.op # "setParameters" =>
            ModelParameters' = ModelParameters]_vars
    /\ [][client'.call.op = "simulate" => simulated' = Some(ModelParameters)]_vars

\* Two updates have been merged into the defaults (basil; EC 0.5 with pH 6.0),
\* and the caller has written pH 0 into the copy it got: the model still has
\* pH 6.0.
C27_Witness ==
    /\ client.call.op = "mutate"
    /\ client.copy # Undefined
    /\ heap[client.copy[1]].ph = 0
    /\ ModelParameters =
          [ConstructedParameters EXCEPT !.cropType = "basil", !.ec = 5]

-----------------------------------------------------------------------------
(* The store *)

\* The action types the store declares.
ADD_MEASUREMENT == "ADD_MEASUREMENT"
SET_PARAMETERS == "SET_PARAMETERS"

\* const initialState: State = { measurements: [] };
initialState == [measurements |-> << >>]

\* addMeasurement(measurement): the action creator.
addMeasurement(measurement) == [type |-> ADD_MEASUREMENT, payload |-> measurement]

\* Mutant of reducer: the payload is put in front of the list.
reducerPrepends(state, action) ==
    LET current == IF state = Undefined THEN initialState ELSE state[1]
    IN  IF action.type = "ADD_MEASUREMENT"
        THEN [current EXCEPT !.measurements = << action.payload >> \o @]
        ELSE current

\* reducer(state = initialState, action); state is Undefined when the store
\* passes none.
reducer(state, action) ==
    LET current == IF state = Undefined THEN initialState ELSE state[1]
    IN  IF action.type = "ADD_MEASUREMENT"
        THEN [current EXCEPT !.measurements = Append(@, action.payload)]
        ELSE current

\* How many measurements are dispatched.
MaxMeasurements == 4

\* The measurements that are dispatched, and the actions: an added measurement,
\* the declared SET_PARAMETERS, and a type that nothing declares.
Measurements == {"at 08:00", "at 12:00", "at 16:00"}
Dispatched ==
    {addMeasurement(m) : m \in Measurements}
        \cup { [type |-> SET_PARAMETERS, payload |-> "parameters"],
               [type |-> "RESET", payload |-> "none"] }

\* The store when it is created: the reducer is run once without a state.
InitStore ==
    /\ ServiceIdle
    /\ heap = NoArrays
    /\ model = Undefined
    /\ simulated = Undefined
    /\ client = Undefined
    /\ view = Undefined
    /\ calculator = Undefined
    /\ store = [ state |-> reducer(Undefined, [type |-> "@@INIT", payload |-> "none"]),
                 action |-> Undefined ]

\* dispatch(action): the state becomes what the reducer returns.
Dispatch(action) ==
    /\ action.type = ADD_MEASUREMENT =>
          Len(store.state.measurements) < MaxMeasurements
    /\ store' = [ state |-> reducer(Some(store.state), action),
                  action |-> Some(action) ]
    /\ UNCHANGED <<serviceVars, heap, model, simulated, client, view, calculator>>

NextStore == \E action \in Dispatched : Dispatch(action)

SpecStore == InitStore /\ [][NextStore]_vars

-----------------------------------------------------------------------------
(* C28 *)

\* C28: the measurement history is append-only: from the empty list, each
\* ADD_MEASUREMENT returns a state whose list is the previous list followed by
\* the payload (one longer, the earlier entries unchanged and in order); every
\* other action type, the declared SET_PARAMETERS included, returns the state
\* unchanged.
C28_HistoryAppendOnly ==
    /\ store.state.measurements = << >>
    /\ [][\E action \in {store'.action[1]} :
            \E before \in {store.state.measurements} :
            \E after \in {store'.state.measurements} :
                IF action.type = ADD_MEASUREMENT
                THEN /\ Len(after) = Len(before) + 1
                     /\ SubSeq(after, 1, Len(before)) = before
                     /\ after[Len(after)] = action.payload
                     /\ DOMAIN store'.state = {"measurements"}
                ELSE store'.state = store.state]_vars

\* Two measurements were added, the later one first in time, and SET_PARAMETERS
\* was dispatched after them: the list holds the two in the order of arrival.
C28_Witness ==
    /\ store.action = Some([type |-> SET_PARAMETERS, payload |-> "parameters"])
    /\ store.state.measurements = << "at 12:00", "at 08:00" >>

-----------------------------------------------------------------------------
(* GrowthSimulator *)

\* Number(value) of the text of a number field, in tenths; the empty field is 0.
Number(text) ==
    CASE text = ""    -> 0
      [] text = "0.5" -> 5
      [] text = "5.4" -> 54
      [] text = "15"  -> 150
      [] text = "95"  -> 950

\* A number in the unit its reading is kept in: tenths for pH and EC, whole
\* units for the others.
InUnitsOf(name, tenths) == IF name \in {"ph", "ec"} THEN tenths ELSE tenths \div 10

\* What the user types into the fields, and the plants the user selects.
FieldEdits ==
    { [name |-> "ph", text |-> "5.4"], [name |-> "ph", text |-> ""],
      [name |-> "ec", text |-> "0.5"], [name |-> "humidity", text |-> "95"],
      [name |-> "airTemperature", text |-> "15"] }
SelectedPlants == {"lettuce", "basil", "tomato"}

\* controller.updateParameter(name, value): the update the controller passes to
\* the model's setParameters.
updateParameter(name, value) == [k \in {name} |-> value]

\* The view when it is mounted on a new model: useState(controller.getParameters()),
\* useState(null), useState('lettuce').
InitView ==
    /\ ServiceIdle
    /\ model = [parameters |-> ParametersObject(1), result |-> NoResult]
    /\ heap = [r \in {ParametersObject(1), ParametersObject(2)} |-> ConstructedParameters]
    /\ simulated = Undefined
    /\ client = [copy |-> Undefined, call |-> Called("new", << >>),
                 returned |-> Undefined]
    /\ view = [ parameters |-> Some(ParametersObject(2)), result |-> NoResult,
                selectedPlant |-> "lettuce" ]
    /\ store = Undefined
    /\ calculator = Undefined

ViewUnchanged == UNCHANGED <<serviceVars, client, store, calculator>>

\* handleParameterChange(name, value): the model gets the update through the
\* controller and the view keeps a copy of the model's new parameters.
handleParameterChange(name, value) ==
    /\ \E newValue \in {IF name = "cropType" THEN value
                        ELSE InUnitsOf(name, Number(value))} :
       \E own \in {NewObject(Reachable)} :
       \E copy \in {NewObject(Reachable \cup {own})} :
       \E merged \in {Spread(heap[model.parameters], updateParameter(name, newValue))} :
          /\ model' = [model EXCEPT !.parameters = own]
          /\ heap' = [r \in {own, copy} |-> merged]
          /\ view' = [view EXCEPT !.parameters = Some(copy)]
    /\ UNCHANGED simulated
    /\ ViewUnchanged

\* onChange of a number field: handleParameterChange('ph', e.target.value), ...
EditField == \E edit \in FieldEdits : handleParameterChange(edit.name, edit.text)

\* Mutant of SelectPlant: the selection is also passed on as the crop type.
SelectPlantAsCropType(plant) ==
    /\ \E own \in {NewObject(Reachable)} :
       \E copy \in {NewObject(Reachable \cup {own})} :
       \E merged \in {Spread(heap[model.parameters], updateParameter("cropType", plant))} :
          /\ model' = [model EXCEPT !.parameters = own]
          /\ heap' = [r \in {own, copy} |-> merged]
          /\ view' = [view EXCEPT !.parameters = Some(copy), !.selectedPlant = plant]
    /\ UNCHANGED simulated
    /\ ViewUnchanged

\* onChange of the plant list: setSelectedPlant(e.target.value)
SelectPlant(plant) ==
    /\ view' = [view EXCEPT !.selectedPlant = plant]
    /\ UNCHANGED <<model, heap, simulated>>
    /\ ViewUnchanged

\* handleSimulate: const r = controller.simulate(); setResult(r);
handleSimulate ==
    /\ heap[model.parameters].cropType \in KnownCrops
    /\ \E p \in {heap[model.parameters]} :
       \E r \in {simulateGrowth(p.cropType, p).result} :
          /\ model' = [model EXCEPT !.result = r]
          /\ simulated' = Some(p)
          /\ view' = [view EXCEPT !.result = r]
    /\ UNCHANGED heap
    /\ ViewUnchanged

NextView ==
    \/ EditField
    \/ \E plant \in SelectedPlants : SelectPlant(plant)
    \/ handleSimulate

SpecView == InitView /\ [][NextView]_vars

-----------------------------------------------------------------------------
(* C29 *)

-----------------------------------------------------------------------------
(* CropCalculator *)

\* The crops of the calculator; optimalPH in tenths.
CROPS ==
    << [ id |-> "lettuce", growthDaysRange |-> << 28, 45 >>, optimalTempC |-> << 15, 22 >>,
         optimalPH |-> << 55, 65 >>, lightLux |-> 20000 ],
       [ id |-> "basil", growthDaysRange |-> << 25, 60 >>, optimalTempC |-> << 18, 30 >>,
         optimalPH |-> << 55, 65 >>, lightLux |-> 20000 ],
       [ id |-> "tomato", growthDaysRange |-> << 60, 100 >>, optimalTempC |-> << 18, 26 >>,
         optimalPH |-> << 55, 65 >>, lightLux |-> 30000 ],
       [ id |-> "spinach", growthDaysRange |-> << 30, 50 >>, optimalTempC |-> << 10, 20 >>,
         optimalPH |-> << 60, 70 >>, lightLux |-> 15000 ],
       [ id |-> "arugula", growthDaysRange |-> << 20, 35 >>, optimalTempC |-> << 10, 20 >>,
         optimalPH |-> << 60, 70 >>, lightLux |-> 15000 ],
       [ id |-> "kale", growthDaysRange |-> << 45, 75 >>, optimalTempC |-> << 10, 24 >>,
         optimalPH |-> << 60, 70 >>, lightLux |-> 18000 ],
       [ id |-> "chard", growthDaysRange |-> << 30, 60 >>, optimalTempC |-> << 15, 24 >>,
         optimalPH |-> << 60, 70 >>, lightLux |-> 16000 ],
       [ id |-> "pak_choi", growthDaysRange |-> << 30, 45 >>, optimalTempC |-> << 15, 22 >>,
         optimalPH |-> << 60, 70 >>, lightLux |-> 15000 ],
       [ id |-> "microgreens_mix", growthDaysRange |-> << 7, 14 >>, optimalTempC |-> << 18, 24 >>,
         optimalPH |-> << 55, 70 >>, lightLux |-> 10000 ],
       [ id |-> "pea_shoots", growthDaysRange |-> << 7, 14 >>, optimalTempC |-> << 15, 22 >>,
         optimalPH |-> << 60, 70 >>, lightLux |-> 10000 ],
       [ id |-> "watercress", growthDaysRange |-> << 14, 28 >>, optimalTempC |-> << 10, 20 >>,
         optimalPH |-> << 65, 75 >>, lightLux |-> 12000 ],
       [ id |-> "cilantro", growthDaysRange |-> << 28, 70 >>, optimalTempC |-> << 15, 25 >>,
         optimalPH |-> << 60, 70 >>, lightLux |-> 15000 ],
       [ id |-> "parsley", growthDaysRange |-> << 50, 90 >>, optimalTempC |-> << 12, 24 >>,
         optimalPH |-> << 60, 70 >>, lightLux |-> 12000 ],
       [ id |-> "mint", growthDaysRange |-> << 30, 60 >>, optimalTempC |-> << 15, 24 >>,
         optimalPH |-> << 60, 70 >>, lightLux |-> 12000 ],
       [ id |-> "chives", growthDaysRange |-> << 30, 60 >>, optimalTempC |-> << 10, 22 >>,
         optimalPH |-> << 60, 70 >>, lightLux |-> 12000 ],
       [ id |-> "rosemary", growthDaysRange |-> << 60, 120 >>, optimalTempC |-> << 15, 25 >>,
         optimalPH |-> << 60, 70 >>, lightLux |-> 15000 ],
       [ id |-> "thyme", growthDaysRange |-> << 60, 120 >>, optimalTempC |-> << 15, 24 >>,
         optimalPH |-> << 60, 70 >>, lightLux |-> 15000 ],
       [ id |-> "oregano", growthDaysRange |-> << 60, 120 >>, optimalTempC |-> << 15, 24 >>,
         optimalPH |-> << 60, 70 >>, lightLux |-> 15000 ],
       [ id |-> "cucumber", growthDaysRange |-> << 50, 70 >>, optimalTempC |-> << 20, 26 >>,
         optimalPH |-> << 55, 65 >>, lightLux |-> 25000 ],
       [ id |-> "pepper", growthDaysRange |-> << 60, 90 >>, optimalTempC |-> << 20, 28 >>,
         optimalPH |-> << 55, 65 >>, lightLux |-> 25000 ],
       [ id |-> "strawberry", growthDaysRange |-> << 60, 120 >>, optimalTempC |-> << 15, 25 >>,
         optimalPH |-> << 55, 65 >>, lightLux |-> 20000 ],
       [ id |-> "eggplant", growthDaysRange |-> << 80, 140 >>, optimalTempC |-> << 20, 30 >>,
         optimalPH |-> << 55, 65 >>, lightLux |-> 25000 ] >>

\* CROPS.find(c => c.id === cropId)
Selected(cropId) == CROPS[CHOOSE i \in DOMAIN CROPS : CROPS[i].id = cropId]

\* The warnings calculate pushes, in its order: pH, temperature, light hours.
\* temp2 is twice the temperature.
Warnings(selected, temp2, ph, lightHours) ==
    (IF ph < selected.optimalPH[1] THEN << "pH below optimum" >> ELSE << >>)
    \o (IF ph > selected.optimalPH[2] THEN << "pH above optimum" >> ELSE << >>)
    \o (IF temp2 < 2 * selected.optimalTempC[1]
        THEN << "temperature below optimum" >> ELSE << >>)
    \o (IF temp2 > 2 * selected.optimalTempC[2]
        THEN << "temperature above optimum" >> ELSE << >>)
    \o (IF selected.lightLux # 0 /\ (lightHours < 8 \/ lightHours > 20)
        THEN << "light hours outside 8-20" >> ELSE << >>)

\* tempFactor = 1 + (-0.02 * tempDiff), in doubles; tempDiff2 = 2 * tempDiff is an
\* integer and -0.02 * tempDiff is the same real number as -tempDiff2 * 0.01,
\* the double of 0.02 being twice the double of 0.01.
TempFactor(tempDiff2) == DAdd(Literal(1, 1), DTimes(-tempDiff2, Literal(1, 100)))

\* The result calculate() sets: the day range of the crop scaled by tempFactor,
\* rounded and clamped, with the warnings.
calculate(selected, temp2, ph, lightHours) ==
    Only({ Only({
        [ crop |-> selected.id,
          estimatedDays |-> << Max(1, minD), Max(minD, maxD) >>,
          warnings |-> Warnings(selected, temp2, ph, lightHours) ]
        : minD \in {DRound(DTimes(selected.growthDaysRange[1], tempFactor))},
          maxD \in {DRound(DTimes(selected.growthDaysRange[2], tempFactor))} })
      : tempFactor \in
          {TempFactor(temp2 - (selected.optimalTempC[1] + selected.optimalTempC[2]))} })

\* The highest temperature entered, in half degrees (80 degrees); the lowest
\* is -10 degrees.
MaxTemp == 160

Temperatures == (-20)..MaxTemp

\* A calculator whose fields hold a crop, a temperature, a pH and light hours,
\* and that has not calculated yet.
InitCalculator ==
    /\ ServiceIdle
    /\ heap = NoArrays
    /\ model = Undefined
    /\ simulated = Undefined
    /\ client = Undefined
    /\ view = Undefined
    /\ store = Undefined
    /\ \E i \in DOMAIN CROPS, temp2 \in Temperatures, ph \in {40, 60, 80},
          lightHours \in {6, 16} :
          calculator = [ cropId |-> CROPS[i].id, temp |-> temp2, ph |-> ph,
                         lightHours |-> lightHours, result |-> Undefined ]

\* onClick of the button: calculate()
Calculate ==
    /\ calculator.result = Undefined
    /\ calculator' =
          [calculator EXCEPT !.result =
              Some(calculate(Selected(calculator.cropId), calculator.temp,
                             calculator.ph, calculator.lightHours))]
    /\ UNCHANGED <<serviceVars, heap, model, simulated, client, view, store>>

SpecCalculator == InitCalculator /\ [][Calculate]_vars

-----------------------------------------------------------------------------
(* C30 *)

\* C30: calculate always produces a well-formed day range: for every crop of
\* CROPS and every temperature, estimatedDays[0] >= 1 and
\* estimatedDays[0] <= estimatedDays[1].
C30_AsStated ==
    calculator.result # Undefined =>
        \E days \in {calculator.result[1].estimatedDays} :
            days[1] >= 1 /\ days[1] <= days[2]

=============================================================================
